---- MODULE Spec2Model ----
(***************************************************************************)
(* Task-Based Access Control (TBAC): policy engine (PEP1 / PEP2 /          *)
(* filesystem scoping), approval store and tool-call dispatcher.           *)
(*                                                                         *)
(* Python strings whose characters matter (action names, paths, folder     *)
(* names) are sequences of one-character strings, so that lower(), the     *)
(* substring test `tok in s` and PurePosixPath parsing are computed on     *)
(* the characters.  Opaque strings (identities, tool names, parameter      *)
(* names, approval ids) are TLA+ strings.  A Python dict is a function;    *)
(* d.get(k, default) is Get(d, k, default).                                *)
(***************************************************************************)
EXTENDS Integers, Sequences, FiniteSets, TLC

VARIABLES
    USER_DB,          \* data.USER_DB: identity -> User record
    TASK_POLICY_DB,   \* data.TASK_POLICY_DB: task name -> Task record
    APPROVALS,        \* approvals.APPROVALS: approval id -> Approval dict
    approvals_file,   \* contents of approvals.json (NoFile when it does not exist)
    approvals_audit,  \* lines of approvals_audit.log
    audit_log,        \* lines of audit.log (tool_manager._write_audit)
    now,              \* datetime.utcnow(), as a counter
    call,             \* the last operation invoked and its arguments
    ret,              \* the value it returned
    invoked,          \* the back-end handlers it invoked, in order
    dispatched,       \* the ToolCalls it handed to execute_tool_call, in order
    router,           \* the Router object: corpus, matcher, init flag, init lock
    threads,          \* the position and the locals of each running thread
    approvals_tmp,    \* the temp file _save_approvals writes (approvals.tmp)
    store_history,    \* the values APPROVALS has held while threads ran
    FAILURE_PROMPTS_CSV,   \* the rows of data/failure_prompts.csv
    VERIFIED_PROMPTS_CSV,  \* the rows of data/verified_prompts.csv
    _RECORDER_EXECUTOR     \* router._RECORDER_EXECUTOR: its queue and its workers

vars == <<USER_DB, TASK_POLICY_DB, APPROVALS, approvals_file, approvals_audit,
          audit_log, now, call, ret, invoked, dispatched,
          router, threads, approvals_tmp, store_history,
          FAILURE_PROMPTS_CSV, VERIFIED_PROMPTS_CSV, _RECORDER_EXECUTOR>>

(***************************************************************************)
(* Bounds of the model.                                                    *)
(***************************************************************************)
\* number of operations (clock readings) in one behaviour
MaxClock == 3
\* number of distinct approval ids uuid4 can produce / a caller can present
MaxApprovalIds == 2
\* number of pieces a path is assembled from
MaxPathPieces == 5
\* number of (tool, level) requirements of a drawn task
MaxTaskTools == 2
\* length of a drawn reference text
MaxPatternLen == 3
\* number of reference items handed to a matcher
MaxItems == 2
\* length of a drawn query
MaxQueryLen == 4
MaxThreads == 3

(***************************************************************************)
(* Strings.                                                                *)
(***************************************************************************)
s_read == <<"r", "e", "a", "d">>
s_get == <<"g", "e", "t">>
s_list == <<"l", "i", "s", "t">>
s_fetch == <<"f", "e", "t", "c", "h">>
s_deploy == <<"d", "e", "p", "l", "o", "y">>
s_migrate == <<"m", "i", "g", "r", "a", "t", "e">>
s_rollback == <<"r", "o", "l", "l", "b", "a", "c", "k">>
s_delete == <<"d", "e", "l", "e", "t", "e">>
s_remove == <<"r", "e", "m", "o", "v", "e">>
s_destroy == <<"d", "e", "s", "t", "r", "o", "y">>
s_read_repo == <<"r", "e", "a", "d", "_", "r", "e", "p", "o">>
s_write_code == <<"w", "r", "i", "t", "e", "_", "c", "o", "d", "e">>
s_read_file == <<"r", "e", "a", "d", "_", "f", "i", "l", "e">>
s_write_file == <<"w", "r", "i", "t", "e", "_", "f", "i", "l", "e">>
s_read_secret == <<"r", "e", "a", "d", "_", "s", "e", "c", "r", "e", "t">>
s_create_lead == <<"c", "r", "e", "a", "t", "e", "_", "l", "e", "a", "d">>
s_Engineering == <<"E", "n", "g", "i", "n", "e", "e", "r", "i", "n", "g">>
s_IT == <<"I", "T">>
s_Sales == <<"S", "a", "l", "e", "s">>
s_etc == <<"e", "t", "c">>
s_dotdot == <<".", ".">>
s_dot == <<".">>
s_slash == <<"/">>
s_slashslash == <<"/", "/">>
s_DEPLOY == <<"D", "E", "P", "L", "O", "Y">>
s_Get_Status == <<"G", "e", "t", "_", "S", "t", "a", "t", "u", "s">>
s_forget == <<"f", "o", "r", "g", "e", "t">>
s_update == <<"u", "p", "d", "a", "t", "e">>
s_delete_repo == <<"d", "e", "l", "e", "t", "e", "_", "r", "e", "p", "o">>
s_rollback_list == <<"r", "o", "l", "l", "b", "a", "c", "k", "_", "l", "i", "s", "t">>
s_write_secret == <<"w", "r", "i", "t", "e", "_", "s", "e", "c", "r", "e", "t">>
s_deploy_secret == <<"d", "e", "p", "l", "o", "y", "_", "s", "e", "c", "r", "e", "t">>
s_secret_txt == <<"s", "e", "c", "r", "e", "t", ".", "t", "x", "t">>
s_logs_txt == <<"l", "o", "g", "s", ".", "t", "x", "t">>
s_proposal_docx == <<"p", "r", "o", "p", "o", "s", "a", "l", ".", "d", "o", "c", "x">>
s_main == <<"m", "a", "i", "n">>
s_staging == <<"s", "t", "a", "g", "i", "n", "g">>
s_production == <<"p", "r", "o", "d", "u", "c", "t", "i", "o", "n">>
s_prod == <<"p", "r", "o", "d">>
s_demo == <<"d", "e", "m", "o">>
s_dev == <<"d", "e", "v">>
s_repo == <<"r", "e", "p", "o">>
s_main_branch == <<"m", "a", "i", "n", " ", "b", "r", "a", "n", "c", "h">>
s_README_content == <<"R", "E", "A", "D", "M", "E", " ", "c", "o", "n", "t", "e", "n", "t">>
p_push_readme ==
    <<"P", "u", "s", "h", " ", "a", " ", "n", "e", "w", " ", "R", "E", "A", "D", "M",
      "E", " ", "f", "i", "l", "e", " ", "t", "o", " ", "t", "h", "e", " ", "m", "a",
      "i", "n", " ", "b", "r", "a", "n", "c", "h", ".">>
p_deploy_production ==
    <<"D", "e", "p", "l", "o", "y", " ", "t", "o", " ", "p", "r", "o", "d", "u", "c",
      "t", "i", "o", "n">>
p_fix_repo ==
    <<"F", "i", "x", " ", "R", "E", "P", "O", ":", " ", "d", "o", "c", "s", "-", "s",
      "i", "t", "e", " ", "n", "o", "w">>
p_repo_no_name ==
    <<"r", "e", "p", "o", "=", " ", "!">>
s_fix_bug == <<"f", "i", "x", " ", "b", "u", "g">>
s_Fix_bug == <<"F", "i", "x", " ", "b", "u", "g">>
s_empty == <<>>

\* Python's None where a string is expected (a path): a value no string equals
None == <<"<None>">>

UpperToLower ==
    ("A" :> "a") @@ ("B" :> "b") @@ ("C" :> "c") @@ ("D" :> "d") @@ ("E" :> "e") @@
    ("F" :> "f") @@ ("G" :> "g") @@ ("H" :> "h") @@ ("I" :> "i") @@ ("J" :> "j") @@
    ("K" :> "k") @@ ("L" :> "l") @@ ("M" :> "m") @@ ("N" :> "n") @@ ("O" :> "o") @@
    ("P" :> "p") @@ ("Q" :> "q") @@ ("R" :> "r") @@ ("S" :> "s") @@ ("T" :> "t") @@
    ("U" :> "u") @@ ("V" :> "v") @@ ("W" :> "w") @@ ("X" :> "x") @@ ("Y" :> "y") @@
    ("Z" :> "z")

\* str.lower()
lower(s) == [i \in 1..Len(s) |-> IF s[i] \in DOMAIN UpperToLower THEN UpperToLower[s[i]] ELSE s[i]]

\* `sub in s` on strings
Contains(s, sub) ==
    \E i \in 1..(Len(s) - Len(sub) + 1) : SubSeq(s, i, i + Len(sub) - 1) = sub

\* any(tok in s for tok in toks)
ContainsAny(s, toks) == \E tok \in toks : Contains(s, tok)

\* dict.get(k, default)
Get(d, k, default) == IF k \in DOMAIN d THEN d[k] ELSE default

\* the empty dict
EmptyDict == [k \in {} |-> "v"]

(***************************************************************************)
(* Static policy tables (app/core/data.py).                                *)
(***************************************************************************)
User(id, name, team, permissions) ==
    [id |-> id, name |-> name, team |-> team, permissions |-> permissions]

\* a Task; required_tools is the dict's item sequence, in insertion order
Task(name, required_tools) == [name |-> name, required_tools |-> required_tools]

USER_DB_src ==
    ("eng01" :> User("eng01", "Alex", "Engineering",
        ("GitHub" :> "write") @@ ("FileSystem" :> "read_write") @@ ("Deployment" :> "deploy"))) @@
    ("it01" :> User("it01", "Priya", "IT",
        ("GitHub" :> "read") @@ ("FileSystem" :> "read") @@ ("Deployment" :> "deploy"))) @@
    ("sales01" :> User("sales01", "Marco", "Sales",
        ("GitHub" :> "none") @@ ("FileSystem" :> "read") @@ ("CRM" :> "write")))

FILESYSTEM_POLICY ==
    (s_Engineering :> {"eng01"}) @@ (s_IT :> {"it01"}) @@ (s_Sales :> {"sales01"})

TASK_POLICY_DB_src ==
    ("Feature_Development" :> Task("Feature_Development", << <<"GitHub", "write">> >>)) @@
    ("Production_Support" :> Task("Production_Support",
        << <<"GitHub", "read">>, <<"FileSystem", "read">> >>)) @@
    ("Incident_Resolution" :> Task("Incident_Resolution",
        << <<"GitHub", "read">>, <<"FileSystem", "read">> >>)) @@
    ("Infrastructure_Maintenance" :> Task("Infrastructure_Maintenance",
        << <<"Deployment", "deploy">>, <<"FileSystem", "read">> >>)) @@
    ("Lead_Generation" :> Task("Lead_Generation", << <<"CRM", "write">> >>)) @@
    ("Proposal_Development" :> Task("Proposal_Development", << <<"FileSystem", "read">> >>))

(***************************************************************************)
(* PEP1 (app/core/security.py).                                            *)
(***************************************************************************)
\* the tuples of granted levels the final checks of PEP1 and PEP2 test against
ReadLevels == {"read", "read_write", "write"}
WriteLevels == {"write", "read_write"}
DeployLevels == {"deploy"}

\* one requirement of the loop: the three `continue` conditions
level_satisfied(level, user_level) ==
    \/ level = "read" /\ user_level \in ReadLevels
    \/ level = "write" /\ user_level \in WriteLevels
    \/ level = "deploy" /\ user_level \in DeployLevels

\* a loop that skips the tools the identity has no grant for
RECURSIVE required_tools_loop_skip_missing(_, _)
required_tools_loop_skip_missing(user, items) ==
    IF items = <<>> THEN TRUE
    ELSE LET tool == items[1][1]
             level == items[1][2]
             user_level == Get(user.permissions, tool, "none")
         IN  IF tool \notin DOMAIN user.permissions \/ level_satisfied(level, user_level)
             THEN required_tools_loop_skip_missing(user, Tail(items))
             ELSE FALSE

\* for tool, level in task.required_tools.items(): ... return False / return True
RECURSIVE required_tools_loop(_, _)
required_tools_loop(user, items) ==
    IF items = <<>> THEN TRUE
    ELSE LET tool == items[1][1]
             level == items[1][2]
             user_level == Get(user.permissions, tool, "none")
         IN  IF level_satisfied(level, user_level)
             THEN required_tools_loop(user, Tail(items))
             ELSE FALSE

check_task_authorization(user_id, task_name) ==
    IF user_id \notin DOMAIN USER_DB THEN FALSE
    ELSE IF task_name \notin DOMAIN TASK_POLICY_DB THEN FALSE
    ELSE required_tools_loop(USER_DB[user_id], TASK_POLICY_DB[task_name].required_tools)

(***************************************************************************)
(* Filesystem scoping (app/core/security.py).                              *)
(***************************************************************************)
\* str.split('/')
RECURSIVE SplitSlash(_)
SplitSlash(s) ==
    IF s = <<>> THEN << <<>> >>
    ELSE LET rest == SplitSlash(Tail(s))
         IN  IF Head(s) = "/"
             THEN << <<>> >> \o rest
             ELSE << <<Head(s)>> \o Head(rest) >> \o Tail(rest)

\* number of leading '/' characters
RECURSIVE LeadingSlashes(_)
LeadingSlashes(s) ==
    IF s = <<>> \/ Head(s) # "/" THEN 0 ELSE 1 + LeadingSlashes(Tail(s))

\* PurePosixPath(path).parts: the root ('/', or '//' for exactly two leading
\* slashes) followed by the components that are neither empty nor '.'
PurePosixPath_parts(path) ==
    LET comps == SelectSeq(SplitSlash(path), LAMBDA c : c # <<>> /\ c # s_dot)
        n == LeadingSlashes(path)
        root == IF n = 0 THEN <<>> ELSE IF n = 2 THEN <<s_slashslash>> ELSE <<s_slash>>
    IN  root \o comps

\* `x in seq` on a list
InList(x, seq) == \E i \in 1..Len(seq) : seq[i] = x

\* a traversal test that looks at the first part only
has_traversal_first_only(parts) == parts # <<>> /\ parts[1] = s_dotdot

\* reject traversal: `'..' in parts`
has_traversal(parts) == InList(s_dotdot, parts)

check_filesystem_access(user_id, path) ==
    IF path = <<>> \/ path = None THEN FALSE
    ELSE LET parts == SelectSeq(PurePosixPath_parts(path),
                                LAMBDA part : part # s_slash /\ part # s_dot)
         IN  IF has_traversal(parts) THEN FALSE
             ELSE IF parts = <<>> THEN FALSE
             ELSE LET folder == parts[1]
                      allowed == Get(FILESYSTEM_POLICY, folder, {})
                  IN  user_id \in allowed

(***************************************************************************)
(* PEP2 (app/core/security.py).                                            *)
(***************************************************************************)
ToolCall(tool_name, action, parameters) ==
    [tool_name |-> tool_name, action |-> action, parameters |-> parameters]

\* a whitelist that forgets the approval_id parameter of the high-risk tools
TOOL_PARAM_POLICY_no_approval_id ==
    ("GitHub" :> (("repo" :> FALSE) @@ ("content" :> TRUE))) @@
    ("FileSystem" :> (("path" :> FALSE) @@ ("content" :> TRUE))) @@
    ("Secrets" :> ("name" :> FALSE)) @@
    ("CRM" :> ("lead" :> FALSE)) @@
    ("DB" :> ("script" :> TRUE)) @@
    ("Deployment" :> ("env" :> FALSE))

\* per tool: recognised parameter -> is it sensitive
TOOL_PARAM_POLICY ==
    ("GitHub" :> (("repo" :> FALSE) @@ ("content" :> TRUE))) @@
    ("FileSystem" :> (("path" :> FALSE) @@ ("content" :> TRUE))) @@
    ("Secrets" :> ("name" :> FALSE)) @@
    ("CRM" :> ("lead" :> FALSE)) @@
    ("DB" :> (("script" :> TRUE) @@ ("approval_id" :> FALSE))) @@
    ("Deployment" :> (("env" :> FALSE) @@ ("approval_id" :> FALSE)))

\* `tc.action or ''`
action_or_empty(tc) == IF tc.action = None THEN s_empty ELSE tc.action

\* a classification that tests the action as given, without lower-casing it
required_level_case_sensitive(action) ==
    IF ContainsAny(action, {s_read, s_get, s_list, s_fetch}) THEN "read"
    ELSE IF ContainsAny(action, {s_deploy, s_migrate, s_rollback}) THEN "deploy"
    ELSE "write"

\* action -> required permission level, on the lower-cased action
required_level(action) ==
    LET action_lower == lower(action)
    IN  IF ContainsAny(action_lower, {s_read, s_get, s_list, s_fetch}) THEN "read"
        ELSE IF ContainsAny(action_lower, {s_deploy, s_migrate, s_rollback}) THEN "deploy"
        ELSE IF ContainsAny(action_lower, {s_delete, s_remove, s_destroy}) THEN "write"
        ELSE "write"

\* a parameter loop that skips the parameters the tool does not recognise
params_pass_ignore_unknown(user, tool_name, params) ==
    IF tool_name \notin DOMAIN TOOL_PARAM_POLICY THEN TRUE
    ELSE LET tool_policy == TOOL_PARAM_POLICY[tool_name]
         IN  \A p_key \in DOMAIN params \cap DOMAIN tool_policy :
                tool_policy[p_key] =>
                    Get(user.permissions, tool_name, "none") \in {"write", "read_write"}

\* a parameter loop that checks the whitelist but not the sensitive flag
params_pass_ignore_sensitive(user, tool_name, params) ==
    IF tool_name \notin DOMAIN TOOL_PARAM_POLICY THEN TRUE
    ELSE \A p_key \in DOMAIN params : p_key \in DOMAIN TOOL_PARAM_POLICY[tool_name]

\* the loop over params.items(): every exit of the loop is `return False`,
\* so it passes iff no parameter takes one
params_pass(user, tool_name, params) ==
    IF tool_name \notin DOMAIN TOOL_PARAM_POLICY THEN TRUE
    ELSE LET tool_policy == TOOL_PARAM_POLICY[tool_name]
         IN  \A p_key \in DOMAIN params :
                /\ p_key \in DOMAIN tool_policy
                /\ tool_policy[p_key] =>
                      Get(user.permissions, tool_name, "none") \in {"write", "read_write"}

\* a final check in which only the very level required passes
final_permission_check_exact(required, user_level) == required = user_level

\* the final permission check: map user_level to ability
final_permission_check(required, user_level) ==
    \/ required = "read" /\ user_level \in ReadLevels
    \/ required = "write" /\ user_level \in WriteLevels
    \/ required = "deploy" /\ user_level \in DeployLevels

\* the checks without the path-level check of the FileSystem tool
tool_call_checks_skip_path(user, user_id, tool_call) ==
    LET tool_name == tool_call.tool_name
    IN  IF ~params_pass(user, tool_name, tool_call.parameters) THEN FALSE
        ELSE IF tool_name = "Secrets"
                /\ Get(user.permissions, "Secrets", "none") \notin {"read", "write"}
        THEN FALSE
        ELSE final_permission_check(required_level(action_or_empty(tool_call)),
                                    Get(user.permissions, tool_name, "none"))

\* the checks of check_tool_authorization once the identity is looked up
tool_call_checks(user, user_id, tool_call) ==
    LET tool_name == tool_call.tool_name
        action == action_or_empty(tool_call)
        params == tool_call.parameters
    IN  IF tool_name = "FileSystem"
           /\ ~check_filesystem_access(user_id, Get(params, "path", s_empty))
        THEN FALSE
        ELSE IF ~params_pass(user, tool_name, params) THEN FALSE
        ELSE IF tool_name = "Secrets"
                /\ Get(user.permissions, "Secrets", "none") \notin {"read", "write"}
        THEN FALSE
        ELSE final_permission_check(required_level(action),
                                    Get(user.permissions, tool_name, "none"))

check_tool_authorization(user_id, tool_call) ==
    IF user_id \notin DOMAIN USER_DB THEN FALSE
    ELSE tool_call_checks(USER_DB[user_id], user_id, tool_call)

(***************************************************************************)
(* Mock tool back-ends (app/services/tool_manager.py): each re-validates   *)
(* the call it stands for and returns ok or denied.  An f-string result is  *)
(* the tuple of its literal pieces and the interpolated value.             *)
(***************************************************************************)
handler_result(user_id, tc, denied_message, data) ==
    IF ~check_tool_authorization(user_id, tc)
    THEN [status |-> "denied", message |-> denied_message]
    ELSE [status |-> "ok", data |-> data]

MockGitHub_read_repo(user_id, repo) ==
    handler_result(user_id, ToolCall("GitHub", s_read_repo, ("repo" :> repo)),
                   "Not authorized to read repo", <<"Logs from ", repo, "... (mock)">>)

\* a write_code handler that trusts the dispatcher and checks nothing
MockGitHub_write_code_unchecked(user_id, repo, content) ==
    [status |-> "ok", data |-> <<"Committed to ", repo, " (mock)">>]

MockGitHub_write_code(user_id, repo, content) ==
    handler_result(user_id,
                   ToolCall("GitHub", s_write_code, ("repo" :> repo) @@ ("content" :> content)),
                   "Not authorized to write code", <<"Committed to ", repo, " (mock)">>)

MockFileSystem_read_file(user_id, path) ==
    handler_result(user_id, ToolCall("FileSystem", s_read_file, ("path" :> path)),
                   "Not authorized to read file", <<"Contents of ", path, " (mock)">>)

MockFileSystem_write_file(user_id, path, content) ==
    handler_result(user_id,
                   ToolCall("FileSystem", s_write_file, ("path" :> path) @@ ("content" :> content)),
                   "Not authorized to write file", <<"Wrote to ", path, " (mock)">>)

MockDeployment_deploy(user_id, env) ==
    handler_result(user_id, ToolCall("Deployment", s_deploy, ("env" :> env)),
                   "Not authorized to deploy", <<"Deployed to ", env, " (mock)">>)

\* a migrate handler that re-validates the call without the script parameter
MockDB_migrate_no_script(user_id, script) ==
    handler_result(user_id, ToolCall("DB", s_migrate, EmptyDict),
                   "Not authorized to migrate DB", "DB migration applied (mock)")

MockDB_migrate(user_id, script) ==
    handler_result(user_id, ToolCall("DB", s_migrate, ("script" :> script)),
                   "Not authorized to migrate DB", "DB migration applied (mock)")

MockSecrets_get_secret(user_id, name) ==
    handler_result(user_id, ToolCall("Secrets", s_read_secret, ("name" :> name)),
                   "Not authorized to access secrets", <<"secret:", name, " (mock)">>)

MockCRM_create_lead(user_id, lead_data) ==
    handler_result(user_id, ToolCall("CRM", s_create_lead, ("lead" :> lead_data)),
                   "Not authorized to create lead", "Lead created (mock)")

(***************************************************************************)
(* Approval store (app/core/approvals.py).                                 *)
(***************************************************************************)
\* the ids uuid4 generates, which are also the ids a caller can present
IdNames == <<"id1", "id2", "id3", "id4">>
ApprovalIds == {IdNames[i] : i \in 1..MaxApprovalIds}

\* Optional values: None is the empty sequence, a value is wrapped
Nothing == <<>>
Just(x) == <<x>>

\* ThreadPoolExecutor(max_workers=4): no job waiting, every worker idle
max_workers == 4

IdleWorker == [pc |-> "idle", prompt |-> <<>>, success |-> FALSE, task |-> "<None>"]

ThreadPoolExecutor == [queue |-> <<>>, workers |-> [w \in 1..max_workers |-> IdleWorker]]

\* Router(): no corpus, no matcher, not initialised, the init lock free (it
\* holds the number of the thread that has it, 0 for none); the counters
\* record how often the corpus was loaded, a build was run and a build raised
Router_new ==
    [reference_items |-> Nothing, matcher |-> Nothing, _pattern_to_task |-> EmptyDict,
     _init_done |-> FALSE, _init_lock |-> 0, loads |-> 0, builds |-> 0, raised |-> 0]

\* the approvals file before the first successful save
NoFile == [exists |-> FALSE, data |-> [k \in {} |-> "v"]]

\* Python values json.dump does not write as they are: a tuple is written as
\* a list, a value that is not serialisable is written as its str()
JsonOf ==
    ("<tuple ('mgr01',)>" :> "<list ['mgr01']>") @@ ("<object Approver>" :> "str(Approver)")

\* json.dump(..., default=str) of an identity handed in by a caller
json_leaf(v) == IF v \in DOMAIN JsonOf THEN JsonOf[v] ELSE v

\* json.dump of one approval record: the status and the timestamps are strings
\* and the toolcall holds strings and dicts, which are written as they are
json_record(appr) ==
    [k \in DOMAIN appr |->
        IF k \in {"requested_by", "approved_by"} THEN json_leaf(appr[k]) ELSE appr[k]]

\* the sequences of a sequence of sequences, one after the other
RECURSIVE Flatten(_)
Flatten(ss) == IF ss = <<>> THEN <<>> ELSE Head(ss) \o Flatten(Tail(ss))

\* the keys of an approval record in the order the code inserts them
FieldOrder ==
    <<"status", "requested_by", "toolcall", "requested_at", "approved_by", "approved_at">>

\* the ids of the store in the order of their insertion (the order of a
\* Python dict): by the time of the request, then by the number of the id
IdIndex(id) == CHOOSE i \in 1..Len(IdNames) : IdNames[i] = id

inserted_before(store, a, b) ==
    \/ store[a].requested_at < store[b].requested_at
    \/ store[a].requested_at = store[b].requested_at /\ IdIndex(a) < IdIndex(b)

first_inserted(store, ids) ==
    CHOOSE a \in ids : \A b \in ids \ {a} : inserted_before(store, a, b)

RECURSIVE insertion_order(_, _)
insertion_order(store, ids) ==
    IF ids = {} THEN <<>>
    ELSE <<first_inserted(store, ids)>>
         \o insertion_order(store, ids \ {first_inserted(store, ids)})

\* one line of the document: the id of the record it belongs to ("" for the
\* braces of the document), a key or a brace, the value
json_line(id, key, value) == <<id, key, value>>

\* the keys of a record that are present, in their order
present_keys(appr) == SelectSeq(FieldOrder, LAMBDA k : k \in DOMAIN appr)

\* the lines of one record between its braces
record_lines(id, appr, keys) ==
    <<json_line(id, "{", "")>>
    \o [i \in 1..Len(keys) |-> json_line(id, keys[i], json_record(appr)[keys[i]])]
    \o <<json_line(id, "}", "")>>

\* the lines of the records in the order ids
store_lines(store, ids) ==
    Flatten([i \in 1..Len(ids) |-> record_lines(ids[i], store[ids[i]],
                                                present_keys(store[ids[i]]))])

\* json.dump(APPROVALS, f, default=str, indent=2): the text written, line by line
json_dump(store) ==
    <<json_line("", "{", "")>>
    \o store_lines(store, insertion_order(store, DOMAIN store))
    \o <<json_line("", "}", "")>>

\* the object a text holds: its ids, the keys of each and their values
json_ids(text) == {text[i][1] : i \in 1..Len(text)} \ {""}

json_keys(text, id) ==
    {text[i][2] : i \in {j \in 1..Len(text) : text[j][1] = id}} \ {"{", "}"}

json_value(text, id, key) ==
    text[CHOOSE i \in 1..Len(text) : text[i][1] = id /\ text[i][2] = key][3]

json_parsed(text) ==
    [id \in json_ids(text) |-> [key \in json_keys(text, id) |-> json_value(text, id, key)]]

\* json.load accepts the text: it is one whole document (an empty text, a cut
\* one or one followed by more text raises)
json_valid(text) ==
    /\ Len(text) >= 2
    /\ \A id \in json_ids(text) : "requested_at" \in json_keys(text, id)
    /\ text = json_dump(json_parsed(text))

\* a loader that reads every approval back as pending
_load_approvals_as_pending(file) ==
    IF file.exists /\ json_valid(file.data)
    THEN [k \in json_ids(file.data) |-> [json_parsed(file.data)[k] EXCEPT !.status = "pending"]]
    ELSE EmptyDict

\* _load_approvals at process start: APPROVALS is empty and takes the items of
\* the document when the file exists (the keys of a JSON object are strings);
\* when json.load raises it is cleared
_load_approvals(file) ==
    IF file.exists /\ json_valid(file.data) THEN json_parsed(file.data) ELSE EmptyDict

\* a save that writes the target path directly: a failure leaves it cut short
_save_approvals_in_place(store, save_ok) ==
    IF save_ok THEN [exists |-> TRUE, data |-> json_dump(store)]
    ELSE [exists |-> TRUE, data |-> <<>>]

\* _save_approvals: the temp file replaces the target, or the failure is swallowed
_save_approvals(store, save_ok) ==
    IF save_ok THEN [exists |-> TRUE, data |-> json_dump(store)] ELSE approvals_file

\* _write_approvals_audit: one line appended, or the failure is swallowed
_write_approvals_audit(entry, audit_ok) ==
    IF audit_ok THEN Append(approvals_audit, entry) ELSE approvals_audit

\* a create_approval that stores the request as already approved
pending_approval_preapproved(requested_by, toolcall) ==
    [status |-> "approved", requested_by |-> requested_by, toolcall |-> toolcall,
     requested_at |-> now]

\* the record create_approval stores under the new id
pending_approval(requested_by, toolcall) ==
    [status |-> "pending", requested_by |-> requested_by, toolcall |-> toolcall,
     requested_at |-> now]

\* the state change of create_approval(requested_by, toolcall) generating aid
create_approval_effect(aid, requested_by, toolcall, save_ok, audit_ok) ==
    /\ APPROVALS' = (aid :> pending_approval(requested_by, toolcall)) @@ APPROVALS
    /\ approvals_file' = _save_approvals(APPROVALS', save_ok)
    /\ approvals_audit' = _write_approvals_audit(
            [ts |-> now, approval_id |-> aid, event |-> "requested",
             requested_by |-> requested_by, toolcall |-> toolcall], audit_ok)

\* an approve_approval that toggles the status instead of setting it
approved_approval_toggle(appr, approver_id) ==
    (("status" :> (IF appr.status = "approved" THEN "pending" ELSE "approved"))
        @@ ("approved_by" :> approver_id) @@ ("approved_at" :> now)) @@ appr

\* an approve_approval that records the requester as the approver
approved_approval_by_requester(appr, approver_id) ==
    (("status" :> "approved") @@ ("approved_by" :> appr.requested_by)
        @@ ("approved_at" :> now)) @@ appr

\* the record approve_approval leaves under the id
approved_approval(appr, approver_id) ==
    (("status" :> "approved") @@ ("approved_by" :> approver_id) @@ ("approved_at" :> now))
        @@ appr

\* create_approval called directly; uuid4 returns an id that is not in use
create_approval(requested_by, toolcall, aid, save_ok, audit_ok) ==
    /\ now < MaxClock
    /\ aid \in ApprovalIds \ DOMAIN APPROVALS
    /\ create_approval_effect(aid, requested_by, toolcall, save_ok, audit_ok)
    /\ call' = [op |-> "create_approval", requested_by |-> requested_by, toolcall |-> toolcall]
    /\ ret' = aid
    /\ invoked' = <<>>
    /\ dispatched' = <<>>
    /\ now' = now + 1
    /\ UNCHANGED <<USER_DB, TASK_POLICY_DB, audit_log>>
    /\ UNCHANGED <<router, threads, approvals_tmp, store_history>>
    /\ UNCHANGED <<FAILURE_PROMPTS_CSV, VERIFIED_PROMPTS_CSV, _RECORDER_EXECUTOR>>

approve_approval(approval_id, approver_id, save_ok, audit_ok) ==
    /\ now < MaxClock
    /\ call' = [op |-> "approve_approval", approval_id |-> approval_id,
                approver_id |-> approver_id]
    /\ invoked' = <<>>
    /\ dispatched' = <<>>
    /\ now' = now + 1
    /\ IF approval_id \notin DOMAIN APPROVALS
       THEN /\ ret' = FALSE
            /\ UNCHANGED <<APPROVALS, approvals_file, approvals_audit>>
       ELSE LET appr == approved_approval(APPROVALS[approval_id], approver_id)
            IN  /\ APPROVALS' = [APPROVALS EXCEPT ![approval_id] = appr]
                /\ approvals_file' = _save_approvals(APPROVALS', save_ok)
                /\ approvals_audit' = _write_approvals_audit(
                        [ts |-> now, approval_id |-> approval_id, event |-> "approved",
                         approved_by |-> approver_id, requested_by |-> appr.requested_by,
                         toolcall |-> appr.toolcall], audit_ok)
                /\ ret' = TRUE
    /\ UNCHANGED <<USER_DB, TASK_POLICY_DB, audit_log>>
    /\ UNCHANGED <<router, threads, approvals_tmp, store_history>>
    /\ UNCHANGED <<FAILURE_PROMPTS_CSV, VERIFIED_PROMPTS_CSV, _RECORDER_EXECUTOR>>

(***************************************************************************)
(* Dispatcher (app/services/tool_manager.py).  Django is not configured,   *)
(* so `from app.models import Approval` raises and execute_tool_call uses  *)
(* the approvals module (ApprovalModel is None).                           *)
(***************************************************************************)
_requires_approval(tool, action) ==
    \/ tool = "Deployment" /\ Contains(lower(action), s_deploy)
    \/ tool = "DB" /\ Contains(lower(action), s_migrate)

\* the snapshot of the call handed to create_approval and to _write_audit
toolcall_snapshot(tc) == [tool |-> tc.tool_name, action |-> tc.action, params |-> tc.parameters]

\* an audit writer that records every decision but the denials
_write_audit_skip_denied(entry, audit_ok) ==
    IF audit_ok /\ entry.decision # "denied" THEN Append(audit_log, entry) ELSE audit_log

\* _write_audit: the Django model is unavailable, so one line is appended to
\* audit.log, or the failure is swallowed
_write_audit(entry, audit_ok) ==
    IF audit_ok THEN Append(audit_log, entry) ELSE audit_log

\* the if/elif chain on the tool name: the handler selected and its result
dispatch(user_id, tc) ==
    LET tool == tc.tool_name
        action == action_or_empty(tc)
        params == tc.parameters
    IN  IF tool = "GitHub" THEN
            IF Contains(action, s_read)
            THEN [handler |-> <<"MockGitHub.read_repo">>,
                  result |-> MockGitHub_read_repo(user_id, Get(params, "repo", "main"))]
            ELSE [handler |-> <<"MockGitHub.write_code">>,
                  result |-> MockGitHub_write_code(user_id, Get(params, "repo", "main"),
                                                   Get(params, "content", ""))]
        ELSE IF tool = "FileSystem" THEN
            IF Contains(action, s_read)
            THEN [handler |-> <<"MockFileSystem.read_file">>,
                  result |-> MockFileSystem_read_file(user_id, Get(params, "path", s_slash))]
            ELSE [handler |-> <<"MockFileSystem.write_file">>,
                  result |-> MockFileSystem_write_file(user_id, Get(params, "path", s_slash),
                                                       Get(params, "content", ""))]
        ELSE IF tool = "Deployment" THEN
            [handler |-> <<"MockDeployment.deploy">>,
             result |-> MockDeployment_deploy(user_id, Get(params, "env", "staging"))]
        ELSE IF tool = "DB" THEN
            [handler |-> <<"MockDB.migrate">>,
             result |-> MockDB_migrate(user_id, Get(params, "script", ""))]
        ELSE IF tool = "Secrets" THEN
            [handler |-> <<"MockSecrets.get_secret">>,
             result |-> MockSecrets_get_secret(user_id, Get(params, "name", ""))]
        ELSE IF tool = "CRM" THEN
            [handler |-> <<"MockCRM.create_lead">>,
             result |-> MockCRM_create_lead(user_id, Get(params, "lead", "<None>"))]
        ELSE [handler |-> <<>>, result |-> [status |-> "error", message |-> "Unknown tool"]]

\* `if not approval_id`: an absent, None or empty approval_id
no_approval_id(tc) == Get(tc.parameters, "approval_id", "") = ""

\* the gate that honours any known approval, approved or not
approval_granted_any_known(approval_id) == approval_id \in DOMAIN APPROVALS

\* the approval gate: the Approval exists and its status is approved
approval_granted(approval_id) ==
    /\ approval_id \in DOMAIN APPROVALS
    /\ APPROVALS[approval_id].status = "approved"

\* a dispatcher that runs the approval gate before PEP2
tool_call_outcome_gate_first(user_id, tc, new_id) ==
    IF _requires_approval(tc.tool_name, tc.action) /\ no_approval_id(tc)
    THEN [res |-> [status |-> "pending_approval", message |-> "Action requires approval",
                   approval_id |-> new_id],
          handler |-> <<>>, create |-> TRUE]
    ELSE IF _requires_approval(tc.tool_name, tc.action)
            /\ ~approval_granted(tc.parameters.approval_id)
    THEN [res |-> [status |-> "pending_approval", message |-> "Approval not granted yet",
                   approval_id |-> tc.parameters.approval_id],
          handler |-> <<>>, create |-> FALSE]
    ELSE IF ~check_tool_authorization(user_id, tc)
    THEN [res |-> [status |-> "denied", message |-> "Not authorized to perform tool call"],
          handler |-> <<>>, create |-> FALSE]
    ELSE LET d == dispatch(user_id, tc)
         IN  [res |-> d.result, handler |-> d.handler, create |-> FALSE]

\* the decision of execute_tool_call(user_id, tc): the result it returns, the
\* handlers it invokes and whether it creates an Approval (under new_id)
tool_call_outcome(user_id, tc, new_id) ==
    IF ~check_tool_authorization(user_id, tc)
    THEN [res |-> [status |-> "denied", message |-> "Not authorized to perform tool call"],
          handler |-> <<>>, create |-> FALSE]
    ELSE IF _requires_approval(tc.tool_name, tc.action) /\ no_approval_id(tc)
    THEN [res |-> [status |-> "pending_approval", message |-> "Action requires approval",
                   approval_id |-> new_id],
          handler |-> <<>>, create |-> TRUE]
    ELSE IF _requires_approval(tc.tool_name, tc.action)
            /\ ~approval_granted(tc.parameters.approval_id)
    THEN [res |-> [status |-> "pending_approval", message |-> "Approval not granted yet",
                   approval_id |-> tc.parameters.approval_id],
          handler |-> <<>>, create |-> FALSE]
    ELSE LET d == dispatch(user_id, tc)
         IN  [res |-> d.result, handler |-> d.handler, create |-> FALSE]

\* the entry execute_tool_call hands to _write_audit
dispatch_audit_entry(user_id, tc, res) ==
    [ts |-> now, user |-> user_id, toolcall |-> toolcall_snapshot(tc),
     decision |-> res.status, message |-> Get(res, "message", "<None>")]

\* a dispatcher that uses an Approval up when it honours it
execute_tool_call_consuming(user_id, tc, new_id, save_ok, audit_ok) ==
    LET o == tool_call_outcome(user_id, tc, new_id)
    IN  /\ now < MaxClock
        /\ IF o.create
           THEN /\ new_id \in ApprovalIds \ DOMAIN APPROVALS
                /\ create_approval_effect(new_id, user_id, toolcall_snapshot(tc),
                                          save_ok, audit_ok)
           ELSE IF _requires_approval(tc.tool_name, tc.action) /\ o.handler # <<>>
           THEN /\ APPROVALS' = [APPROVALS EXCEPT
                                    ![tc.parameters.approval_id].status = "consumed"]
                /\ UNCHANGED <<approvals_file, approvals_audit>>
           ELSE UNCHANGED <<APPROVALS, approvals_file, approvals_audit>>
        /\ audit_log' = _write_audit(dispatch_audit_entry(user_id, tc, o.res), audit_ok)
        /\ call' = [op |-> "execute_tool_call", user_id |-> user_id, tc |-> tc]
        /\ ret' = o.res
        /\ invoked' = o.handler
        /\ dispatched' = <<tc>>
        /\ now' = now + 1
        /\ UNCHANGED <<USER_DB, TASK_POLICY_DB>>
        /\ UNCHANGED <<router, threads, approvals_tmp, store_history>>
        /\ UNCHANGED <<FAILURE_PROMPTS_CSV, VERIFIED_PROMPTS_CSV, _RECORDER_EXECUTOR>>

execute_tool_call(user_id, tc, new_id, save_ok, audit_ok) ==
    LET o == tool_call_outcome(user_id, tc, new_id)
    IN  /\ now < MaxClock
        /\ IF o.create
           THEN /\ new_id \in ApprovalIds \ DOMAIN APPROVALS
                /\ create_approval_effect(new_id, user_id, toolcall_snapshot(tc),
                                          save_ok, audit_ok)
           ELSE UNCHANGED <<APPROVALS, approvals_file, approvals_audit>>
        /\ audit_log' = _write_audit(dispatch_audit_entry(user_id, tc, o.res), audit_ok)
        /\ call' = [op |-> "execute_tool_call", user_id |-> user_id, tc |-> tc]
        /\ ret' = o.res
        /\ invoked' = o.handler
        /\ dispatched' = <<tc>>
        /\ now' = now + 1
        /\ UNCHANGED <<USER_DB, TASK_POLICY_DB>>
        /\ UNCHANGED <<router, threads, approvals_tmp, store_history>>
        /\ UNCHANGED <<FAILURE_PROMPTS_CSV, VERIFIED_PROMPTS_CSV, _RECORDER_EXECUTOR>>

(***************************************************************************)
(* The dispatcher and the approval store under concurrent callers.         *)
(***************************************************************************)
\* identities that call: an engineer (Deployment: deploy, no grant on DB) and
\* a database operator (DB: deploy, no grant on Deployment)
Callers == {"eng01", "dba01"}
Approvers == {"mgr01", "mgr02"}

\* the identity table: the personas of data.py and a database operator
UserTable ==
    ("dba01" :> User("dba01", "Dana", "IT", ("DB" :> "deploy"))) @@ USER_DB_src

\* str(uuid.uuid4()): an id that is not in use; ids are interchangeable, so
\* the first unused one stands for all of them
uuid4 ==
    IF ApprovalIds \subseteq DOMAIN APPROVALS THEN "exhausted"
    ELSE IdNames[CHOOSE i \in 1..MaxApprovalIds :
            /\ IdNames[i] \notin DOMAIN APPROVALS
            /\ \A j \in 1..(i - 1) : IdNames[j] \in DOMAIN APPROVALS]

\* the tool calls submitted without an approval_id
BaseCalls ==
    {ToolCall("Deployment", s_deploy, ("env" :> "staging")),
     ToolCall("Deployment", s_rollback, ("env" :> "staging")),
     ToolCall("DB", s_migrate, EmptyDict),
     ToolCall("GitHub", s_write_code, ("repo" :> "main") @@ ("content" :> "x"))}

\* the call with an approval_id attached, as a caller resubmits it
Resubmitted(tc, approval_id) ==
    ToolCall(tc.tool_name, tc.action, ("approval_id" :> approval_id) @@ tc.parameters)

\* the requests made to the dispatcher: every caller submits every base call,
\* and resubmits the high-risk call of its own tool with each approval id
Requests ==
    (Callers \X BaseCalls)
    \cup {<<"eng01", Resubmitted(ToolCall("Deployment", s_deploy, ("env" :> "staging")), i)>> :
            i \in ApprovalIds}
    \cup {<<"dba01", Resubmitted(ToolCall("DB", s_migrate, EmptyDict), i)>> : i \in ApprovalIds}

Init ==
    /\ USER_DB = UserTable
    /\ TASK_POLICY_DB = TASK_POLICY_DB_src
    /\ APPROVALS = [k \in {} |-> "v"]
    /\ approvals_file = NoFile
    /\ approvals_audit = <<>>
    /\ audit_log = <<>>
    /\ now = 0
    /\ call = [op |-> "none"]
    /\ ret = "none"
    /\ invoked = <<>>
    /\ dispatched = <<>>
    /\ router = Router_new
    /\ threads = <<>>
    /\ approvals_tmp = NoFile
    /\ store_history = {}
    /\ FAILURE_PROMPTS_CSV = NoFile
    /\ VERIFIED_PROMPTS_CSV = NoFile
    /\ _RECORDER_EXECUTOR = ThreadPoolExecutor

ExecuteToolCall ==
    \E rq \in Requests : execute_tool_call(rq[1], rq[2], uuid4, TRUE, TRUE)

CreateApproval ==
    create_approval("eng01", toolcall_snapshot(ToolCall("Deployment", s_deploy, EmptyDict)),
                    uuid4, TRUE, TRUE)

ApproveApproval ==
    \E approval_id \in ApprovalIds, approver_id \in Approvers :
        approve_approval(approval_id, approver_id, TRUE, TRUE)

Next == ExecuteToolCall \/ CreateApproval \/ ApproveApproval

Spec == Init /\ [][Next]_vars

(***************************************************************************)
(* Properties of the dispatcher and the approval store.                    *)
(***************************************************************************)
\* the step is one call of op (every operation reads the clock once)
Called(op) == now' = now + 1 /\ call'.op = op

\* the approval_id a tool call carries ("" when it carries none)
CarriedApprovalId(tc) == Get(tc.parameters, "approval_id", "")

\* the parameters of a tool call without its approval_id
WithoutApprovalId(params) == [k \in DOMAIN params \ {"approval_id"} |-> params[k]]

\* deploy on the Deployment tool, migrate on the DB tool
HighRisk(tc) == _requires_approval(tc.tool_name, tc.action)

HighRiskHandlers == {"MockDeployment.deploy", "MockDB.migrate"}

\* C1: execute_tool_call returns ok from the deploy handler or the migrate
\* handler only when the call carries an approval_id whose Approval exists
\* in the store with status approved.
C1_HighRiskGate ==
    (/\ call.op = "execute_tool_call"
     /\ ret.status = "ok"
     /\ \E i \in 1..Len(invoked) : invoked[i] \in HighRiskHandlers)
    => LET aid == CarriedApprovalId(call.tc)
       IN  /\ aid # ""
           /\ aid \in DOMAIN APPROVALS
           /\ APPROVALS[aid].status = "approved"

\* C2: a high-risk call that passes PEP2 and carries an approval_id that is
\* unknown or still pending returns pending_approval with that same id,
\* invokes no handler and creates no Approval, on every such call.
C2_PendingUntilApproved ==
    [][(/\ Called("execute_tool_call")
        /\ check_tool_authorization(call'.user_id, call'.tc)
        /\ HighRisk(call'.tc)
        /\ CarriedApprovalId(call'.tc) # ""
        /\ \/ CarriedApprovalId(call'.tc) \notin DOMAIN APPROVALS
           \/ APPROVALS[CarriedApprovalId(call'.tc)].status = "pending")
       => /\ ret'.status = "pending_approval"
          /\ ret'.approval_id = CarriedApprovalId(call'.tc)
          /\ invoked' = <<>>
          /\ APPROVALS' = APPROVALS]_vars

\* a retry with the id of a still pending Approval was answered pending_approval
C2_Witness ==
    /\ call.op = "execute_tool_call"
    /\ CarriedApprovalId(call.tc) \in DOMAIN APPROVALS
    /\ APPROVALS[CarriedApprovalId(call.tc)].status = "pending"
    /\ ret.status = "pending_approval"

\* C3: a high-risk call that passes PEP2 and carries no approval_id creates
\* exactly one Approval (pending, requested by the caller, with the call's
\* tool/action/parameters), returns pending_approval with the new id and
\* invokes no handler.
C3_CreatesOnePending ==
    [][(/\ Called("execute_tool_call")
        /\ check_tool_authorization(call'.user_id, call'.tc)
        /\ HighRisk(call'.tc)
        /\ CarriedApprovalId(call'.tc) = "")
       => /\ ret'.status = "pending_approval"
          /\ DOMAIN APPROVALS' = DOMAIN APPROVALS \cup {ret'.approval_id}
          /\ ret'.approval_id \notin DOMAIN APPROVALS
          /\ \A id \in DOMAIN APPROVALS : APPROVALS'[id] = APPROVALS[id]
          /\ APPROVALS'[ret'.approval_id].status = "pending"
          /\ APPROVALS'[ret'.approval_id].requested_by = call'.user_id
          /\ APPROVALS'[ret'.approval_id].toolcall =
                [tool |-> call'.tc.tool_name, action |-> call'.tc.action,
                 params |-> call'.tc.parameters]
          /\ invoked' = <<>>]_vars

\* a call without approval_id was answered with the id of a new Approval
C3_Witness ==
    /\ call.op = "execute_tool_call"
    /\ CarriedApprovalId(call.tc) = ""
    /\ ret.status = "pending_approval"
    /\ ret.approval_id \in DOMAIN APPROVALS
    /\ APPROVALS[ret.approval_id].requested_by = call.user_id

\* the caller's Deployment level is deploy and the call is Deployment.deploy
\* with the env parameter at most
DeployCallByDeployer(user_id, tc) ==
    /\ user_id \in DOMAIN USER_DB
    /\ Get(USER_DB[user_id].permissions, "Deployment", "none") = "deploy"
    /\ tc.tool_name = "Deployment"
    /\ tc.action = s_deploy
    /\ DOMAIN WithoutApprovalId(tc.parameters) \subseteq {"env"}

\* the call resubmits, with its approval_id, the call the Approval was created for
Resubmits(user_id, tc, store) ==
    LET aid == CarriedApprovalId(tc)
    IN  /\ aid \in DOMAIN store
        /\ store[aid].requested_by = user_id
        /\ store[aid].toolcall.tool = tc.tool_name
        /\ store[aid].toolcall.action = tc.action
        /\ store[aid].toolcall.params = WithoutApprovalId(tc.parameters)

\* C4: for an identity whose Deployment level is deploy, Deployment.deploy
\* without approval_id returns pending_approval with an id that is then in the
\* store; once that Approval is approved, the same call resubmitted with the id
\* returns ok.
C4_ApprovalRound ==
    [][/\ (/\ Called("execute_tool_call")
           /\ DeployCallByDeployer(call'.user_id, call'.tc)
           /\ "approval_id" \notin DOMAIN call'.tc.parameters)
          => /\ ret'.status = "pending_approval"
             /\ ret'.approval_id \in DOMAIN APPROVALS'
       /\ (/\ Called("execute_tool_call")
           /\ DeployCallByDeployer(call'.user_id, call'.tc)
           /\ Resubmits(call'.user_id, call'.tc, APPROVALS)
           /\ APPROVALS[CarriedApprovalId(call'.tc)].status = "approved")
          => ret'.status = "ok"]_vars

\* the resubmitted deploy ran on the Deployment back-end
C4_Witness ==
    /\ call.op = "execute_tool_call"
    /\ DeployCallByDeployer(call.user_id, call.tc)
    /\ Resubmits(call.user_id, call.tc, APPROVALS)
    /\ APPROVALS[CarriedApprovalId(call.tc)].status = "approved"
    /\ ret.status = "ok"
    /\ invoked = <<"MockDeployment.deploy">>

\* C5: an Approval is pending from its creation until the first successful
\* approve_approval, which returns true for every known id; once approved it
\* stays approved under every operation.
C5_StatusMonotonic ==
    [][/\ \A id \in DOMAIN APPROVALS :
            /\ id \in DOMAIN APPROVALS'
            /\ APPROVALS[id].status = "approved" => APPROVALS'[id].status = "approved"
            /\ (APPROVALS[id].status = "pending" /\ APPROVALS'[id].status # "pending")
                  => /\ Called("approve_approval")
                     /\ call'.approval_id = id
                     /\ ret' = TRUE
                     /\ APPROVALS'[id].status = "approved"
       /\ \A id \in DOMAIN APPROVALS' \ DOMAIN APPROVALS : APPROVALS'[id].status = "pending"
       /\ (Called("approve_approval") /\ call'.approval_id \in DOMAIN APPROVALS)
            => ret' = TRUE /\ APPROVALS'[call'.approval_id].status = "approved"]_vars

\* an Approval that was already approved has been approved again
C5_Witness ==
    /\ call.op = "approve_approval"
    /\ ret = TRUE
    /\ \E i, j \in 1..Len(approvals_audit) :
          /\ i < j
          /\ approvals_audit[i].event = "approved"
          /\ approvals_audit[j].event = "approved"
          /\ approvals_audit[i].approval_id = approvals_audit[j].approval_id
    /\ APPROVALS[call.approval_id].status = "approved"

\* C6: after the first successful approve_approval no later operation changes
\* the recorded approver or approval timestamp, and no operation removes a
\* record from the store.
C6_MutatedOnce ==
    [][\A id \in DOMAIN APPROVALS :
          /\ id \in DOMAIN APPROVALS'
          /\ APPROVALS[id].status = "approved"
                => /\ APPROVALS'[id].approved_by = APPROVALS[id].approved_by
                   /\ APPROVALS'[id].approved_at = APPROVALS[id].approved_at]_vars

(***************************************************************************)
(* The policy engine's pure functions, applied once to drawn inputs.       *)
(***************************************************************************)
Levels == {"none", "read", "write", "read_write", "deploy"}
RequiredLevels == {"read", "write", "deploy"}

\* the tools the drawn identity may hold a grant for
PolicyTools == {"GitHub", "FileSystem", "Deployment"}

\* every permissions dict over PolicyTools (a tool may be missing from it)
PermissionMaps == UNION {[D -> Levels] : D \in SUBSET PolicyTools}

\* identity tables with one identity, holding any permissions dict
DrawnUserTables ==
    {("usr01" :> User("usr01", "Uma", "Any", perms)) : perms \in PermissionMaps}

\* the item sequences of a required_tools dict: at most MaxTaskTools tools,
\* each once
TaskItems ==
    {items \in UNION {[1..n -> PolicyTools \X RequiredLevels] : n \in 0..MaxTaskTools} :
        \A i, j \in 1..Len(items) : i # j => items[i][1] # items[j][1]}

\* task tables with one task, holding any requirements
DrawnTaskTables == {("task01" :> Task("task01", items)) : items \in TaskItems}

PolicyCallers == {"usr01", "ghost01"}

check_task_authorization_call(user_id, task_name) ==
    /\ call.op = "none"
    /\ call' = [op |-> "check_task_authorization", user_id |-> user_id,
                task_name |-> task_name]
    /\ ret' = check_task_authorization(user_id, task_name)
    /\ UNCHANGED <<USER_DB, TASK_POLICY_DB, APPROVALS, approvals_file, approvals_audit,
                   audit_log, now, invoked, dispatched>>
    /\ UNCHANGED <<router, threads, approvals_tmp, store_history>>
    /\ UNCHANGED <<FAILURE_PROMPTS_CSV, VERIFIED_PROMPTS_CSV, _RECORDER_EXECUTOR>>

check_tool_authorization_call(user_id, tool_call) ==
    /\ call.op = "none"
    /\ call' = [op |-> "check_tool_authorization", user_id |-> user_id, tc |-> tool_call]
    /\ ret' = check_tool_authorization(user_id, tool_call)
    /\ UNCHANGED <<USER_DB, TASK_POLICY_DB, APPROVALS, approvals_file, approvals_audit,
                   audit_log, now, invoked, dispatched>>
    /\ UNCHANGED <<router, threads, approvals_tmp, store_history>>
    /\ UNCHANGED <<FAILURE_PROMPTS_CSV, VERIFIED_PROMPTS_CSV, _RECORDER_EXECUTOR>>

check_filesystem_access_call(user_id, path) ==
    /\ call.op = "none"
    /\ call' = [op |-> "check_filesystem_access", user_id |-> user_id, path |-> path]
    /\ ret' = check_filesystem_access(user_id, path)
    /\ UNCHANGED <<USER_DB, TASK_POLICY_DB, APPROVALS, approvals_file, approvals_audit,
                   audit_log, now, invoked, dispatched>>
    /\ UNCHANGED <<router, threads, approvals_tmp, store_history>>
    /\ UNCHANGED <<FAILURE_PROMPTS_CSV, VERIFIED_PROMPTS_CSV, _RECORDER_EXECUTOR>>

\* the state before any call, the policy tables left open
InitStore ==
    /\ APPROVALS = [k \in {} |-> "v"]
    /\ approvals_file = NoFile
    /\ approvals_audit = <<>>
    /\ audit_log = <<>>
    /\ now = 0
    /\ call = [op |-> "none"]
    /\ ret = "none"
    /\ invoked = <<>>
    /\ dispatched = <<>>
    /\ router = Router_new
    /\ threads = <<>>
    /\ approvals_tmp = NoFile
    /\ store_history = {}
    /\ FAILURE_PROMPTS_CSV = NoFile
    /\ VERIFIED_PROMPTS_CSV = NoFile
    /\ _RECORDER_EXECUTOR = ThreadPoolExecutor

(* PEP1 on every identity table and every task table *)
InitPEP1 ==
    /\ USER_DB \in DrawnUserTables
    /\ TASK_POLICY_DB \in DrawnTaskTables
    /\ InitStore

CheckTask ==
    \E user_id \in PolicyCallers, task_name \in {"task01", "Unknown_Task"} :
        check_task_authorization_call(user_id, task_name)

NextPEP1 == CheckTask

SpecPEP1 == InitPEP1 /\ [][NextPEP1]_vars

(* PEP1 on the tasks of data.py and PEP2, on every identity table *)
InitPEP2 ==
    /\ USER_DB \in DrawnUserTables
    /\ TASK_POLICY_DB = TASK_POLICY_DB_src
    /\ InitStore

s_Engineering_logs == s_slash \o s_Engineering \o s_slash \o <<"l", "o", "g", "s">>

\* tool calls on the tools of the drawn identity, with actions of each class
PolicyToolCalls ==
    {ToolCall("GitHub", a, p) :
        a \in {s_read_repo, s_write_code, s_deploy},
        p \in {EmptyDict, ("repo" :> "main"), ("repo" :> "main") @@ ("content" :> "x")}}
    \cup {ToolCall("Deployment", a, ("env" :> "staging")) :
        a \in {s_read_repo, s_write_code, s_deploy, s_rollback}}
    \cup {ToolCall("FileSystem", a, ("path" :> s_Engineering_logs)) :
        a \in {s_read_file, s_write_file}}

CheckSourceTask ==
    \E user_id \in PolicyCallers, task_name \in DOMAIN TASK_POLICY_DB_src :
        check_task_authorization_call(user_id, task_name)

CheckTool ==
    \E user_id \in PolicyCallers, tool_call \in PolicyToolCalls :
        check_tool_authorization_call(user_id, tool_call)

NextPEP2 == CheckSourceTask \/ CheckTool

SpecPEP2 == InitPEP2 /\ [][NextPEP2]_vars

(* check_filesystem_access on paths assembled from pieces *)
PathPieces == {s_slash, s_dotdot, s_dot, s_Engineering, s_IT}

RECURSIVE PathsOfPieces(_)
PathsOfPieces(n) ==
    IF n = 0 THEN {<<>>}
    ELSE LET shorter == PathsOfPieces(n - 1)
         IN  shorter \cup {p \o piece : p \in shorter, piece \in PathPieces}

Paths == PathsOfPieces(MaxPathPieces) \cup {None}

FileCallers == {"eng01", "it01", "ghost01"}

CheckFilesystemAccess ==
    \E user_id \in FileCallers, path \in Paths : check_filesystem_access_call(user_id, path)

NextFS == CheckFilesystemAccess

SpecFS == Init /\ [][NextFS]_vars

(***************************************************************************)
(* Properties of the policy engine.                                        *)
(***************************************************************************)
\* the level granted to an identity for a tool; a missing grant is none
Granted(user_id, tool) ==
    IF user_id \in DOMAIN USER_DB THEN Get(USER_DB[user_id].permissions, tool, "none")
    ELSE "none"

\* read by read/read_write/write, write by write/read_write, deploy by deploy
Dominated(required, granted) ==
    \/ required = "read" /\ granted \in {"read", "read_write", "write"}
    \/ required = "write" /\ granted \in {"write", "read_write"}
    \/ required = "deploy" /\ granted = "deploy"

\* C7: check_task_authorization is true iff identity and task are known and
\* every required (tool, level) pair is dominated by the granted level; raising
\* one required level above what is granted makes it false.
C7_TaskAuthorizedIff ==
    call.op = "check_task_authorization" =>
        LET known == call.user_id \in DOMAIN USER_DB /\ call.task_name \in DOMAIN TASK_POLICY_DB
            items == TASK_POLICY_DB[call.task_name].required_tools
        IN  /\ ret = (known /\ \A i \in 1..Len(items) :
                                  Dominated(items[i][2], Granted(call.user_id, items[i][1])))
            /\ known =>
                 \A i \in 1..Len(items), level \in RequiredLevels :
                    ~Dominated(level, Granted(call.user_id, items[i][1]))
                    => ~required_tools_loop(USER_DB[call.user_id],
                                            [items EXCEPT ![i] = <<items[i][1], level>>])

\* a task with two requirements, one of them on a tool without grant, decided
C7_Witness ==
    /\ call.op = "check_task_authorization"
    /\ call.user_id \in DOMAIN USER_DB
    /\ call.task_name \in DOMAIN TASK_POLICY_DB
    /\ Len(TASK_POLICY_DB[call.task_name].required_tools) = 2
    /\ \E i \in 1..2 : TASK_POLICY_DB[call.task_name].required_tools[i][1]
                          \notin DOMAIN USER_DB[call.user_id].permissions
    /\ ret = FALSE

\* none < read < write = read_write < deploy
Rank == ("none" :> 0) @@ ("read" :> 1) @@ ("write" :> 2) @@ ("read_write" :> 2) @@
        ("deploy" :> 3)

\* the identity with its level for one tool replaced
Regranted(user, tool, level) ==
    [user EXCEPT !.permissions = (tool :> level) @@ user.permissions]

\* C8: the dominance relation of PEP1 and PEP2 is the total order
\* none < read < write = read_write < deploy: when a granted level satisfies a
\* requirement, every higher granted level satisfies it too.
C8_TotalOrder ==
    /\ (call.op = "check_task_authorization" /\ ret = TRUE) =>
          \A tool \in PolicyTools, higher \in Levels :
              Rank[higher] >= Rank[Granted(call.user_id, tool)]
              => required_tools_loop(Regranted(USER_DB[call.user_id], tool, higher),
                                     TASK_POLICY_DB[call.task_name].required_tools)
    /\ (call.op = "check_tool_authorization" /\ ret = TRUE) =>
          \A higher \in Levels :
              Rank[higher] >= Rank[Granted(call.user_id, call.tc.tool_name)]
              => final_permission_check(required_level(call.tc.action), higher)

\* C8 (amended): the relation orders none < read < write = read_write, and
\* deploy stands apart: a satisfied requirement stays satisfied under every
\* higher level other than deploy, a granted deploy satisfies deploy
\* requirements only, and only a granted deploy satisfies a deploy requirement.
C8_OrderBelowDeploy ==
    /\ (call.op = "check_task_authorization" /\ ret = TRUE) =>
          LET items == TASK_POLICY_DB[call.task_name].required_tools
          IN  /\ \A tool \in PolicyTools, higher \in Levels \ {"deploy"} :
                    (/\ Granted(call.user_id, tool) # "deploy"
                     /\ Rank[higher] >= Rank[Granted(call.user_id, tool)])
                    => required_tools_loop(Regranted(USER_DB[call.user_id], tool, higher),
                                           items)
              /\ \A i \in 1..Len(items) :
                    (Granted(call.user_id, items[i][1]) = "deploy") = (items[i][2] = "deploy")
    /\ (call.op = "check_tool_authorization" /\ ret = TRUE) =>
          LET granted == Granted(call.user_id, call.tc.tool_name)
              required == required_level(call.tc.action)
          IN  /\ \A higher \in Levels \ {"deploy"} :
                    (granted # "deploy" /\ Rank[higher] >= Rank[granted])
                    => final_permission_check(required, higher)
              /\ (granted = "deploy") = (required = "deploy")

\* a read requirement passed on a granted level of read, the lowest that has
\* higher levels above it
C8_Witness ==
    /\ call.op = "check_tool_authorization"
    /\ ret = TRUE
    /\ Granted(call.user_id, call.tc.tool_name) = "read"

\* the path has a '..' between two separators (or the ends of the path)
HasDotDotSegment(path) ==
    \E i \in 1..(Len(path) - 1) :
        /\ path[i] = "." /\ path[i + 1] = "."
        /\ i = 1 \/ path[i - 1] = "/"
        /\ i + 1 = Len(path) \/ path[i + 2] = "/"

\* C9: check_filesystem_access is false for every path with a '..' segment,
\* whatever the identity and the other segments.
C9_TraversalDenied ==
    (call.op = "check_filesystem_access" /\ call.path # None /\ HasDotDotSegment(call.path))
    => ret = FALSE

\* a path that leaves a foreign folder for the caller's own was denied
C9_Witness ==
    /\ call.op = "check_filesystem_access"
    /\ call.user_id = "it01"
    /\ call.path = s_Engineering \o s_slash \o s_dotdot \o s_slash \o s_IT
    /\ ret = FALSE

\* the segments of a path: what lies between separators, '.' and empty
\* segments aside
Segments(path) == SelectSeq(SplitSlash(path), LAMBDA c : c # <<>> /\ c # s_dot)

\* C10: check_filesystem_access is true iff the path is non-empty and
\* non-null, has a segment, has no '..' segment, its first segment names a
\* folder of the policy table and the identity is listed for that folder.
C10_AccessIff ==
    call.op = "check_filesystem_access" =>
        (ret = (/\ call.path # <<>>
                /\ call.path # None
                /\ Segments(call.path) # <<>>
                /\ ~HasDotDotSegment(call.path)
                /\ Segments(call.path)[1] \in DOMAIN FILESYSTEM_POLICY
                /\ call.user_id \in FILESYSTEM_POLICY[Segments(call.path)[1]]))

(***************************************************************************)
(* PEP2 applied once to drawn identities and tool calls.                   *)
(***************************************************************************)
\* the tools the dispatcher supports, which are the tools a grant names
SupportedTools == {"GitHub", "FileSystem", "Deployment", "DB", "Secrets", "CRM"}

\* permissions dicts that grant a level on one tool and on one other tool, and
\* the dict without grants
GrantMaps ==
    {EmptyDict} \cup {(t1 :> l1) @@ (t2 :> l2) : t1 \in SupportedTools, t2 \in SupportedTools,
                                                 l1 \in Levels, l2 \in Levels}

\* identity tables in which eng01 (listed for the Engineering folder) holds
\* any of these permissions dicts
GrantedUserTables ==
    {("eng01" :> User("eng01", "Alex", "Engineering", perms)) : perms \in GrantMaps}

InitTool ==
    /\ USER_DB \in GrantedUserTables
    /\ TASK_POLICY_DB = TASK_POLICY_DB_src
    /\ InitStore

\* action strings of every class: read tokens, deploy tokens, destructive
\* tokens, no token, mixed case, two classes at once, empty and None
ActionStrings ==
    {s_read_repo, s_Get_Status, s_forget, s_rollback_list, s_write_code, s_update,
     s_delete_repo, s_deploy, s_DEPLOY, s_migrate, s_rollback, s_empty, None}

\* an action of each class, as the callers of a tool name them
ClassActions(tool) ==
    IF tool = "Secrets" THEN {s_read_secret, s_write_secret, s_deploy_secret}
    ELSE {s_read_repo, s_write_code, s_deploy}

\* the value a caller passes under each parameter name
ParamValue ==
    ("repo" :> "main") @@ ("content" :> "x") @@ ("env" :> "staging") @@
    ("approval_id" :> "id1") @@ ("script" :> "s.sql") @@ ("name" :> "db") @@
    ("lead" :> "genai") @@ ("bogus" :> "1")

\* the parameters dicts over a set of names
Dicts(names) == {[k \in D |-> ParamValue[k]] : D \in SUBSET names}

\* paths: in the caller's folder, through a traversal segment, in the folders
\* of other identities
FilePaths ==
    {s_slash \o s_Engineering \o s_slash \o s_logs_txt,
     s_slash \o s_Engineering \o s_slash \o s_dotdot \o s_slash \o s_IT \o s_slash \o s_secret_txt,
     s_slash \o s_IT \o s_slash \o s_logs_txt,
     s_slash \o s_Sales \o s_slash \o s_proposal_docx}

\* the parameters dicts of FileSystem calls, with and without a path
FileDicts ==
    {[k \in D |-> IF k = "path" THEN path ELSE ParamValue[k]] :
        D \in SUBSET {"path", "content", "bogus"}, path \in FilePaths}

\* the names a caller may pass to a tool: the recognised ones and one more
CallerParamNames(tool) ==
    IF tool = "GitHub" THEN {"repo", "content", "bogus"}
    ELSE IF tool = "Deployment" THEN {"env", "approval_id", "bogus"}
    ELSE IF tool = "DB" THEN {"script", "approval_id", "bogus"}
    ELSE IF tool = "Secrets" THEN {"name", "bogus"}
    ELSE IF tool = "CRM" THEN {"lead", "bogus"}
    ELSE {"bogus"}

ToolCalls ==
    {ToolCall(tool, a, EmptyDict) : tool \in {"GitHub", "CRM"}, a \in ActionStrings}
    \cup UNION {{ToolCall(tool, a, d) : a \in ClassActions(tool), d \in Dicts(CallerParamNames(tool))} :
                    tool \in (SupportedTools \ {"FileSystem"}) \cup {"Jira"}}
    \cup {ToolCall("FileSystem", a, d) : a \in {s_read_file, s_write_file, s_deploy}, d \in FileDicts}

ToolCallers == {"eng01", "ghost01"}

CheckToolCall ==
    \E user_id \in ToolCallers, tool_call \in ToolCalls :
        check_tool_authorization_call(user_id, tool_call)

NextTool == CheckToolCall

SpecTool == InitTool /\ [][NextTool]_vars

(***************************************************************************)
(* Properties of PEP2.                                                     *)
(***************************************************************************)
\* the parameter names recognised for a tool
RecognisedParams(tool) ==
    IF tool = "GitHub" THEN {"repo", "content"}
    ELSE IF tool = "FileSystem" THEN {"path", "content"}
    ELSE IF tool = "Secrets" THEN {"name"}
    ELSE IF tool = "CRM" THEN {"lead"}
    ELSE IF tool = "DB" THEN {"script", "approval_id"}
    ELSE IF tool = "Deployment" THEN {"env", "approval_id"}
    ELSE {}

\* content on GitHub and FileSystem, script on DB
SensitiveParams(tool) ==
    IF tool \in {"GitHub", "FileSystem"} THEN {"content"}
    ELSE IF tool = "DB" THEN {"script"}
    ELSE {}

\* the lower-cased action has the token at some position
HasToken(action, tok) ==
    \E i \in 1..Len(action) : \E j \in i..Len(action) : SubSeq(lower(action), i, j) = tok

HasTokenOf(action, toks) == \E tok \in toks : HasToken(action, tok)

\* read for read/get/list/fetch, else deploy for deploy/migrate/rollback, else write
ExpectedLevel(action) ==
    IF HasTokenOf(action, {s_read, s_get, s_list, s_fetch}) THEN "read"
    ELSE IF HasTokenOf(action, {s_deploy, s_migrate, s_rollback}) THEN "deploy"
    ELSE "write"

\* C12: a tool call with a parameter name outside the whitelist of its tool is
\* denied by check_tool_authorization, whatever the level and the action.
C12_UnknownParamDenied ==
    (/\ call.op = "check_tool_authorization"
     /\ \E p \in DOMAIN call.tc.parameters : p \notin RecognisedParams(call.tc.tool_name))
    => ret = FALSE

\* a write on GitHub by an identity with GitHub write, denied for the parameter
\* it carries beside repo
C12_Witness ==
    /\ call.op = "check_tool_authorization"
    /\ call.tc.tool_name = "GitHub"
    /\ call.tc.action = s_write_code
    /\ DOMAIN call.tc.parameters = {"repo", "bogus"}
    /\ Granted(call.user_id, "GitHub") = "write"
    /\ ret = FALSE

\* C13: a tool call with a parameter flagged sensitive for its tool is
\* authorised only if the identity's level on the tool is write or read_write,
\* whatever level the action requires.
C13_SensitiveNeedsWrite ==
    (/\ call.op = "check_tool_authorization"
     /\ DOMAIN call.tc.parameters \cap SensitiveParams(call.tc.tool_name) # {}
     /\ ret = TRUE)
    => Granted(call.user_id, call.tc.tool_name) \in {"write", "read_write"}

\* a read-classified action carrying content, denied to a read-only identity
C13_Witness ==
    /\ call.op = "check_tool_authorization"
    /\ call.tc.tool_name = "GitHub"
    /\ call.tc.action = s_read_repo
    /\ DOMAIN call.tc.parameters = {"repo", "content"}
    /\ Granted(call.user_id, "GitHub") = "read"
    /\ ret = FALSE

\* C14: on the Secrets tool, a Secrets level of none (or absent) denies, and
\* every other Secrets level passes the capability check, the outcome then
\* being decided by the whitelist and the level the action requires.
C14_SecretsCapability ==
    (/\ call.op = "check_tool_authorization"
     /\ call.tc.tool_name = "Secrets"
     /\ call.user_id \in DOMAIN USER_DB)
    => LET level == Granted(call.user_id, "Secrets")
       IN  /\ level = "none" => ret = FALSE
           /\ level # "none" =>
                ret = (/\ DOMAIN call.tc.parameters \subseteq RecognisedParams("Secrets")
                       /\ Dominated(ExpectedLevel(call.tc.action), level))

\* C15: the required level is read if the lower-cased action contains read,
\* get, list or fetch, else deploy if it contains deploy, migrate or rollback,
\* else write; it is never weaker than read, and read is never required for an
\* action without a read token.
C15_RequiredLevel ==
    (/\ call.op = "check_tool_authorization"
     /\ call.user_id \in DOMAIN USER_DB
     /\ call.tc.tool_name \in {"GitHub", "CRM"}
     /\ DOMAIN call.tc.parameters = {})
    => LET required == required_level(action_or_empty(call.tc))
       IN  /\ required = ExpectedLevel(call.tc.action)
           /\ required \in {"read", "write", "deploy"}
           /\ ~HasTokenOf(call.tc.action, {s_read, s_get, s_list, s_fetch}) => required # "read"
           /\ ret = Dominated(ExpectedLevel(call.tc.action),
                              Granted(call.user_id, call.tc.tool_name))

\* an upper-case DEPLOY passed on a granted level of deploy
C15_Witness ==
    /\ call.op = "check_tool_authorization"
    /\ call.tc.action = s_DEPLOY
    /\ DOMAIN call.tc.parameters = {}
    /\ Granted(call.user_id, call.tc.tool_name) = "deploy"
    /\ ret = TRUE

\* C16: check_tool_authorization is true iff the identity is known, a
\* FileSystem path passes check_filesystem_access, every parameter is
\* whitelisted, a sensitive parameter is matched by write or read_write, a
\* Secrets call is matched by a Secrets level other than none, and the granted
\* level dominates the level the action requires.
C16_ToolAuthorizedIff ==
    call.op = "check_tool_authorization" =>
        LET tool == call.tc.tool_name
            params == call.tc.parameters
            level == Granted(call.user_id, tool)
        IN  ret = (/\ call.user_id \in DOMAIN USER_DB
                   /\ tool = "FileSystem" =>
                        check_filesystem_access(call.user_id, Get(params, "path", s_empty))
                   /\ DOMAIN params \subseteq RecognisedParams(tool)
                   /\ DOMAIN params \cap SensitiveParams(tool) # {} =>
                        level \in {"write", "read_write"}
                   /\ tool = "Secrets" => level # "none"
                   /\ Dominated(ExpectedLevel(call.tc.action), level))

(***************************************************************************)
(* The dispatcher applied once: to the identities of data.py on a store    *)
(* loaded from approvals.json, and to drawn identities on an empty store.  *)
(***************************************************************************)
\* the request whose Approval the loaded store holds
LoadedToolCall == toolcall_snapshot(ToolCall("Deployment", s_deploy, ("env" :> "staging")))

\* the stores _load_approvals can leave at import: none, with a pending
\* Approval, with an approved one
LoadedStores ==
    {EmptyDict,
     ("id1" :> [status |-> "pending", requested_by |-> "eng01", toolcall |-> LoadedToolCall,
                requested_at |-> 0]),
     ("id1" :> [status |-> "approved", requested_by |-> "eng01", toolcall |-> LoadedToolCall,
                requested_at |-> 0, approved_by |-> "mgr01", approved_at |-> 0])}

InitDispatch ==
    /\ \/ USER_DB = UserTable /\ APPROVALS \in LoadedStores
       \/ USER_DB \in GrantedUserTables /\ APPROVALS = EmptyDict
    /\ TASK_POLICY_DB = TASK_POLICY_DB_src
    /\ approvals_file = IF APPROVALS = EmptyDict THEN NoFile
                        ELSE [exists |-> TRUE, data |-> json_dump(APPROVALS)]
    /\ approvals_audit = <<>>
    /\ audit_log = <<>>
    /\ now = 0
    /\ call = [op |-> "none"]
    /\ ret = "none"
    /\ invoked = <<>>
    /\ dispatched = <<>>
    /\ router = Router_new
    /\ threads = <<>>
    /\ approvals_tmp = NoFile
    /\ store_history = {}
    /\ FAILURE_PROMPTS_CSV = NoFile
    /\ VERIFIED_PROMPTS_CSV = NoFile
    /\ _RECORDER_EXECUTOR = ThreadPoolExecutor

\* every identity of the table and one the table does not know submits every
\* tool call
DispatchOnce ==
    \E user_id \in DOMAIN USER_DB \cup {"ghost01"}, tc \in ToolCalls :
        /\ call.op = "none"
        /\ execute_tool_call(user_id, tc, uuid4, TRUE, TRUE)

NextDispatch == DispatchOnce

SpecDispatch == InitDispatch /\ [][NextDispatch]_vars

(***************************************************************************)
(* Properties of the dispatcher's decisions.                               *)
(***************************************************************************)
\* C11: a FileSystem call whose path fails check_filesystem_access (missing,
\* with a traversal segment, or in a folder not allowed for the identity) is
\* denied by check_tool_authorization and by execute_tool_call, whatever the
\* FileSystem level and the action.
C11_PathFailureDenies ==
    (/\ call.op = "execute_tool_call"
     /\ call.tc.tool_name = "FileSystem"
     /\ ~check_filesystem_access(call.user_id, Get(call.tc.parameters, "path", s_empty)))
    => /\ ~check_tool_authorization(call.user_id, call.tc)
       /\ ret.status = "denied"
       /\ invoked = <<>>

\* it01, listed for /IT, was denied reading /Engineering/../IT/secret.txt
C11_Witness ==
    /\ call.op = "execute_tool_call"
    /\ call.user_id = "it01"
    /\ call.tc.tool_name = "FileSystem"
    /\ call.tc.action = s_read_file
    /\ DOMAIN call.tc.parameters = {"path"}
    /\ call.tc.parameters.path =
          s_slash \o s_Engineering \o s_slash \o s_dotdot \o s_slash \o s_IT \o s_slash
             \o s_secret_txt
    /\ ret.status = "denied"

\* C17: a tool call whose tool is not one of the six supported tools returns
\* status error with message 'Unknown tool', never denied.
C17_UnknownToolError ==
    (call.op = "execute_tool_call" /\ call.tc.tool_name \notin SupportedTools)
    => ret.status = "error" /\ ret.message = "Unknown tool"

\* C18: when check_tool_authorization denies, execute_tool_call returns denied,
\* invokes no handler and creates no Approval, also for a high-risk call and
\* for a call that carries the id of an approved Approval.
C18_DeniedNoEffect ==
    [][(Called("execute_tool_call") /\ ~check_tool_authorization(call'.user_id, call'.tc))
       => /\ ret'.status = "denied"
          /\ invoked' = <<>>
          /\ APPROVALS' = APPROVALS
          /\ approvals_audit' = approvals_audit]_vars

\* a high-risk call that carried the id of an approved Approval was denied
C18_Witness ==
    /\ call.op = "execute_tool_call"
    /\ HighRisk(call.tc)
    /\ CarriedApprovalId(call.tc) \in DOMAIN APPROVALS
    /\ APPROVALS[CarriedApprovalId(call.tc)].status = "approved"
    /\ ret.status = "denied"

no_prompt(prompt) == prompt = None \/ prompt = s_empty

_extract_env(prompt) ==
    IF no_prompt(prompt) THEN s_staging
    ELSE LET p == lower(prompt)
         IN  IF Contains(p, s_production) \/ Contains(p, s_prod) THEN s_production
             ELSE IF Contains(p, s_staging) THEN s_staging
             ELSE IF Contains(p, s_demo) \/ Contains(p, s_dev) THEN s_demo
             ELSE s_staging

\* the characters \s and [\w-] match, over the ASCII alphabet
Whitespace == {" ", "\t", "\n"}
WordChars ==
    DOMAIN UpperToLower \cup {UpperToLower[c] : c \in DOMAIN UpperToLower}
    \cup {"0", "1", "2", "3", "4", "5", "6", "7", "8", "9", "_", "-"}

\* the first position from i on whose character is not in chars
RECURSIVE RunEnd(_, _, _)
RunEnd(s, i, chars) ==
    IF i <= Len(s) /\ s[i] \in chars THEN RunEnd(s, i + 1, chars) ELSE i

\* ([\w-]+): the characters from j up to e, one at least; None without one
word_group(prompt, j, e) == IF e > j THEN SubSeq(prompt, j, e - 1) ELSE None

\* \s*([\w-]+) from position j: the whitespace is skipped, the word is group 1
spaces_then_word(prompt, j) == word_group(prompt, j, RunEnd(prompt, j, WordChars))

\* group 1 of repo[:=]\s*([\w-]+), case-insensitive, matched at position i;
\* None when the pattern does not match there
repo_match_at(prompt, i) ==
    IF /\ i + Len(s_repo) <= Len(prompt)
       /\ lower(SubSeq(prompt, i, i + Len(s_repo) - 1)) = s_repo
       /\ prompt[i + Len(s_repo)] \in {":", "="}
    THEN spaces_then_word(prompt, RunEnd(prompt, i + Len(s_repo) + 1, Whitespace))
    ELSE None

\* the first element of a sequence that is not None; None without one
RECURSIVE first_match(_)
first_match(ms) ==
    IF ms = <<>> THEN None
    ELSE IF ms[1] # None THEN ms[1]
    ELSE first_match(Tail(ms))

\* re.search: the leftmost match
re_search_repo(prompt) == first_match([i \in 1..Len(prompt) |-> repo_match_at(prompt, i)])

\* m.group(1) if m else 'main'
group_or_main(m) == IF m # None THEN m ELSE s_main

_extract_repo(prompt) ==
    IF no_prompt(prompt) THEN s_main
    ELSE IF Contains(lower(prompt), s_main_branch) THEN s_main
    ELSE group_or_main(re_search_repo(prompt))

AgentResponse(status, message, result) ==
    [status |-> status, message |-> message, result |-> result]

\* the ToolCalls execute_task builds for a task from the extracted env and
\* repo, in the order it submits them
task_calls(task_name, env, repo) ==
        IF task_name = "Feature_Development" THEN
            <<ToolCall("GitHub", s_write_code,
                       ("repo" :> repo) @@ ("content" :> s_README_content))>>
        ELSE IF task_name \in {"Production_Support", "Incident_Resolution"} THEN
            <<ToolCall("GitHub", s_read_repo, ("repo" :> repo)),
              ToolCall("FileSystem", s_read_file,
                       ("path" :> IF task_name = "Incident_Resolution"
                                  THEN s_slash \o s_IT \o s_slash \o s_logs_txt
                                  ELSE s_slash \o s_Engineering \o s_slash \o s_logs_txt))>>
        ELSE IF task_name = "Infrastructure_Maintenance" THEN
            <<ToolCall("Deployment", s_deploy, ("env" :> env))>>
        ELSE IF task_name = "Lead_Generation" THEN
            <<ToolCall("CRM", s_create_lead, ("lead" :> [source |-> "genai"]))>>
        ELSE IF task_name = "Proposal_Development" THEN
            <<ToolCall("FileSystem", s_read_file,
                       ("path" :> s_slash \o s_Sales \o s_slash \o s_proposal_docx))>>
        ELSE <<>>

agent_calls(prompt, task_name) ==
    task_calls(task_name, _extract_env(prompt), _extract_repo(prompt))

\* an agent that submits every call of the task
executed_calls_no_return(user_id, calls) == calls

\* the calls execute_task submits: it returns at the first denied result.  No
\* call that is followed by another one requires approval, so every call of
\* a task reads the approval store as the request found it.
RECURSIVE executed_calls(_, _)
executed_calls(user_id, calls) ==
    IF calls = <<>> THEN <<>>
    ELSE IF tool_call_outcome(user_id, calls[1], uuid4).res.status = "denied"
         THEN <<calls[1]>>
         ELSE <<calls[1]>> \o executed_calls(user_id, Tail(calls))

\* the message of a task that ran to its end
executed_message(task_name) ==
    IF task_name = "Feature_Development" THEN <<"Feature development executed (mock)">>
    ELSE IF task_name \in {"Production_Support", "Incident_Resolution"}
         THEN <<task_name, " executed (mock)">>
    ELSE IF task_name = "Infrastructure_Maintenance"
         THEN <<"Infrastructure maintenance executed (mock)">>
    ELSE IF task_name = "Lead_Generation" THEN <<"Lead created (mock)">>
    ELSE <<"Proposal data retrieved (mock)">>

\* the AgentResponse of execute_task, from the results of the calls it made
agent_response(task_name, results) ==
    IF results = <<>> THEN AgentResponse("error", "Unknown task", None)
    ELSE IF results[Len(results)].status = "denied"
         THEN AgentResponse("denied", Get(results[Len(results)], "message", None), None)
    ELSE IF task_name \in {"Production_Support", "Incident_Resolution"}
         THEN AgentResponse("ok", executed_message(task_name),
                            [github |-> results[1], filesystem |-> results[Len(results)]])
    ELSE AgentResponse("ok", executed_message(task_name), results[1])

(***************************************************************************)
(* The request flow (app/api.py, QueryAPIView.post).  The router's answer  *)
(* is an input: route_prompt returns a dict with a task (or None) and an   *)
(* error.                                                                  *)
(***************************************************************************)
\* a flow that hands every routed task to the agent
post_stage_no_task_check(user_id, prompt, r) ==
    IF user_id = "" \/ prompt = None THEN "bad_request"
    ELSE IF user_id \notin DOMAIN USER_DB THEN "unknown_user"
    ELSE IF r.task = "<None>" THEN "no_route"
    ELSE "agent"

\* the branch QueryAPIView.post takes
post_stage(user_id, prompt, r) ==
    IF user_id = "" \/ prompt = None THEN "bad_request"
    ELSE IF user_id \notin DOMAIN USER_DB THEN "unknown_user"
    ELSE IF r.task = "<None>" THEN "no_route"
    ELSE IF ~check_task_authorization(user_id, r.task) THEN "task_denied"
    ELSE "agent"

\* the handlers of a sequence of decisions, in order
RECURSIVE handlers_of(_)
handlers_of(outs) ==
    IF outs = <<>> THEN <<>> ELSE outs[1].handler \o handlers_of(Tail(outs))

\* Response(data, status=...): the payload and the HTTP status
Response(data, status) == [data |-> data, status_code |-> status]

\* the Response of each branch
post_response(stage, r, trace_id, resp) ==
    IF stage = "bad_request"
    THEN Response([status |-> "error", message |-> "user_id and prompt required",
                   trace_id |-> trace_id], 400)
    ELSE IF stage = "unknown_user"
    THEN Response([status |-> "error", message |-> "Unknown user",
                   trace_id |-> trace_id], 404)
    ELSE IF stage = "no_route"
    THEN Response([status |-> "error", message |-> r.error, trace_id |-> trace_id], 400)
    ELSE IF stage = "task_denied"
    THEN Response([status |-> "denied", message |-> "User not authorized for task",
                   trace_id |-> trace_id], 403)
    ELSE Response([status |-> resp.status, message |-> resp.message,
                   result |-> resp.result, trace_id |-> trace_id],
                  IF resp.status = "ok" THEN 200
                  ELSE IF resp.status = "denied" THEN 403 ELSE 400)

\* the results of the decisions, in order
results_of(outs) == [i \in 1..Len(outs) |-> outs[i].res]

\* the audit entries of the calls, in order
audit_entries(user_id, calls, results) ==
    [i \in 1..Len(calls) |-> dispatch_audit_entry(user_id, calls[i], results[i])]

\* what the calls of one execute_task leave behind: the Approval a call
\* created, one audit entry per call, the handlers that ran
agent_effect(user_id, save_ok, audit_ok, calls, outs) ==
    /\ IF \E i \in 1..Len(outs) : outs[i].create
       THEN /\ uuid4 \in ApprovalIds \ DOMAIN APPROVALS
            /\ create_approval_effect(uuid4, user_id,
                    toolcall_snapshot(calls[CHOOSE i \in 1..Len(outs) : outs[i].create]),
                    save_ok, audit_ok)
       ELSE UNCHANGED <<APPROVALS, approvals_file, approvals_audit>>
    /\ audit_log' = IF audit_ok
                    THEN audit_log \o audit_entries(user_id, calls, results_of(outs))
                    ELSE audit_log
    /\ invoked' = handlers_of(outs)
    /\ dispatched' = calls

\* the state a request leaves: the branch taken, the calls the agent
\* submitted and the dispatcher's decision on each
post_effect(user_id, prompt, r, trace_id, save_ok, audit_ok, stage, calls, outs) ==
    /\ now < MaxClock
    /\ agent_effect(user_id, save_ok, audit_ok, calls, outs)
    /\ call' = [op |-> "QueryAPIView.post", user_id |-> user_id, prompt |-> prompt,
                route |-> r]
    /\ ret' = post_response(stage, r, trace_id, agent_response(r.task, results_of(outs)))
    /\ now' = now + 1
    /\ UNCHANGED <<USER_DB, TASK_POLICY_DB>>
    /\ UNCHANGED <<router, threads, approvals_tmp, store_history>>
    /\ UNCHANGED <<FAILURE_PROMPTS_CSV, VERIFIED_PROMPTS_CSV, _RECORDER_EXECUTOR>>

\* the decisions of the dispatcher on the calls
outcomes(user_id, calls) ==
    [i \in 1..Len(calls) |-> tool_call_outcome(user_id, calls[i], uuid4)]

\* the request from the calls the agent submitted
post_calls(user_id, prompt, r, trace_id, save_ok, audit_ok, stage, calls) ==
    post_effect(user_id, prompt, r, trace_id, save_ok, audit_ok, stage, calls,
                outcomes(user_id, calls))

\* the request from the branch taken: only the last branch reaches the agent
post_branch(user_id, prompt, r, trace_id, save_ok, audit_ok, stage) ==
    post_calls(user_id, prompt, r, trace_id, save_ok, audit_ok, stage,
               IF stage = "agent" THEN executed_calls(user_id, agent_calls(prompt, r.task))
               ELSE <<>>)

QueryAPIView_post(user_id, prompt, r, trace_id, save_ok, audit_ok) ==
    post_branch(user_id, prompt, r, trace_id, save_ok, audit_ok,
                post_stage(user_id, prompt, r))

\* the identities a request names: the known ones, an unknown one, none
FlowUsers == DOMAIN UserTable \cup {"ghost01", ""}

\* the prompts: the README prompt of the scenarios, a deployment, an explicit
\* repo, a repo token without a name, the empty string, a non-string
Prompts ==
    {p_push_readme, p_deploy_production, p_fix_repo, p_repo_no_name, s_empty, None}

\* the answers of route_prompt: a task of the policy table, a task that is
\* not in it, or no task with one of the router's errors
RouteResults ==
    {[task |-> t, error |-> "<None>"] :
        t \in DOMAIN TASK_POLICY_DB_src \cup {"Unlisted_Task"}}
    \cup {[task |-> "<None>", error |-> e] :
            e \in {"no match", "no match (below threshold)", "this feature is not available"}}

PostOnce ==
    \E user_id \in FlowUsers, prompt \in Prompts, r \in RouteResults :
        /\ call.op = "none"
        /\ QueryAPIView_post(user_id, prompt, r, "trace-1", TRUE, TRUE)

NextFlow == PostOnce

SpecFlow == Init /\ [][NextFlow]_vars

(***************************************************************************)
(* Properties of the request flow.                                         *)
(***************************************************************************)
\* C19: when check_task_authorization denies the routed task of a request,
\* the response status is denied and the agent is not invoked: no ToolCall
\* is dispatched, no back-end handler runs, no Approval is created and no
\* dispatch audit entry is written.
C19_TaskDeniedStopsFlow ==
    [][(/\ Called("QueryAPIView.post")
        /\ call'.user_id \in DOMAIN USER_DB
        /\ call'.prompt # None
        /\ call'.route.task # "<None>"
        /\ ~check_task_authorization(call'.user_id, call'.route.task))
       => /\ ret'.data.status = "denied"
          /\ dispatched' = <<>>
          /\ invoked' = <<>>
          /\ APPROVALS' = APPROVALS
          /\ approvals_file' = approvals_file
          /\ audit_log' = audit_log]_vars

\* sales01, with the README prompt routed to Feature_Development, is refused
\* at the task level
C19_Witness ==
    /\ call.op = "QueryAPIView.post"
    /\ call.user_id = "sales01"
    /\ call.prompt = p_push_readme
    /\ call.route.task = "Feature_Development"
    /\ ~check_task_authorization("sales01", "Feature_Development")
    /\ ret.data.status = "denied"
    /\ ret.status_code = 403
    /\ dispatched = <<>>
    /\ audit_log = <<>>


(***************************************************************************)
(* The approval store across restarts: operations whose save may fail, and *)
(* a restart that loads the store from the approvals file.                 *)
(***************************************************************************)
\* the identities handed to the store: strings, a tuple, an arbitrary object
StoreRequesters == {"eng01", "<object Approver>"}
StoreApprovers == {"mgr01", "<tuple ('mgr01',)>", "<object Approver>"}

\* a restart: the module is imported again and _load_approvals runs
Restart ==
    /\ now < MaxClock
    /\ APPROVALS' = _load_approvals(approvals_file)
    /\ call' = [op |-> "_load_approvals"]
    /\ ret' = "none"
    /\ invoked' = <<>>
    /\ dispatched' = <<>>
    /\ now' = now + 1
    /\ UNCHANGED <<USER_DB, TASK_POLICY_DB, approvals_file, approvals_audit, audit_log>>
    /\ UNCHANGED <<router, threads, approvals_tmp, store_history>>
    /\ UNCHANGED <<FAILURE_PROMPTS_CSV, VERIFIED_PROMPTS_CSV, _RECORDER_EXECUTOR>>

\* json.dumps(entry) of the audit writers has no default: an entry that holds
\* an unserialisable value raises, and the failure is swallowed
Unserialisable == {"<object Approver>"}

StoreCreate ==
    \E requested_by \in StoreRequesters, save_ok \in BOOLEAN :
        create_approval(requested_by,
                        toolcall_snapshot(ToolCall("Deployment", s_deploy, EmptyDict)),
                        uuid4, save_ok, requested_by \notin Unserialisable)

StoreApprove ==
    \E approval_id \in ApprovalIds, approver_id \in StoreApprovers, save_ok \in BOOLEAN :
        approve_approval(approval_id, approver_id, save_ok,
                         /\ approver_id \notin Unserialisable
                         /\ approval_id \in DOMAIN APPROVALS
                              => APPROVALS[approval_id].requested_by \notin Unserialisable)

NextStore == StoreCreate \/ StoreApprove \/ Restart

SpecStore == Init /\ [][NextStore]_vars

(***************************************************************************)
(* Properties of the approval store.                                       *)
(***************************************************************************)
\* the ids of a store and the status under each id
Statuses(store) == [k \in DOMAIN store |-> store[k].status]

\* the last save succeeded: the file holds the document of the store
Persisted == approvals_file = [exists |-> TRUE, data |-> json_dump(APPROVALS)]

\* C21: when the operations on the store were persisted, reloading the store
\* from the approvals file yields the same approval ids with the same status
\* under each id as the store held in memory.
C21_RoundTrip ==
    Persisted => Statuses(_load_approvals(approvals_file)) = Statuses(APPROVALS)

\* a persisted store that holds an approved request whose approver was handed
\* in as a tuple: the record read back differs, the id and the status do not
C21_Witness ==
    /\ Persisted
    /\ \E k \in DOMAIN APPROVALS :
        /\ APPROVALS[k].status = "approved"
        /\ APPROVALS[k].approved_by = "<tuple ('mgr01',)>"
        /\ _load_approvals(approvals_file)[k] # APPROVALS[k]
        /\ _load_approvals(approvals_file)[k].status = "approved"


task_effect(user_id, prompt, task_name, save_ok, audit_ok, calls, outs) ==
    /\ now < MaxClock
    /\ agent_effect(user_id, save_ok, audit_ok, calls, outs)
    /\ call' = [op |-> "execute_task", user_id |-> user_id, prompt |-> prompt,
                task_name |-> task_name]
    /\ ret' = agent_response(task_name, results_of(outs))
    /\ now' = now + 1
    /\ UNCHANGED <<USER_DB, TASK_POLICY_DB>>
    /\ UNCHANGED <<router, threads, approvals_tmp, store_history>>
    /\ UNCHANGED <<FAILURE_PROMPTS_CSV, VERIFIED_PROMPTS_CSV, _RECORDER_EXECUTOR>>

task_run(user_id, prompt, task_name, save_ok, audit_ok, calls) ==
    task_effect(user_id, prompt, task_name, save_ok, audit_ok, calls,
                outcomes(user_id, calls))

execute_task(user_id, prompt, task_name, save_ok, audit_ok) ==
    task_run(user_id, prompt, task_name, save_ok, audit_ok,
             executed_calls(user_id, agent_calls(prompt, task_name)))

\* the task names handed to the agent: those of the policy table and one more
TaskNames == DOMAIN TASK_POLICY_DB_src \cup {"Unlisted_Task"}

ExecuteTaskOnce ==
    \E user_id \in DOMAIN UserTable \cup {"ghost01"}, prompt \in Prompts,
       task_name \in TaskNames :
        /\ call.op = "none"
        /\ execute_task(user_id, prompt, task_name, TRUE, TRUE)

NextAgent == ExecuteTaskOnce

SpecAgent == Init /\ [][NextAgent]_vars

(***************************************************************************)
(* Properties of the agent.                                                *)
(***************************************************************************)
\* the decision recorded for the i-th call of the operation just made
DecisionOf(i) == audit_log'[Len(audit_log) + i].decision

\* C23: in execute_task, as soon as one tool call of the task returns
\* denied the AgentResponse has status denied and no later ToolCall of the
\* task is dispatched: a denied call is the last call dispatched.
C23_DeniedShortCircuits ==
    [][Called("execute_task") =>
        /\ Len(audit_log') = Len(audit_log) + Len(dispatched')
        /\ \A i \in 1..Len(dispatched') :
              DecisionOf(i) = "denied"
                => /\ i = Len(dispatched')
                   /\ ret'.status = "denied"
        /\ ret'.status = "denied"
             => /\ dispatched' # <<>>
                /\ DecisionOf(Len(dispatched')) = "denied"]_vars

\* sales01 asks for Production_Support: the GitHub read is denied and the
\* FileSystem read is not dispatched
C23_Witness ==
    /\ call.op = "execute_task"
    /\ call.user_id = "sales01"
    /\ call.task_name = "Production_Support"
    /\ Len(dispatched) = 1
    /\ dispatched[1].tool_name = "GitHub"
    /\ Len(agent_calls(call.prompt, call.task_name)) > 1
    /\ audit_log[Len(audit_log)].decision = "denied"
    /\ ret.status = "denied"

\* the statuses of the tool-call results an ok AgentResponse carries: the
\* result of each call the task dispatched
ResultStatuses(task_name, result) ==
    IF task_name \in {"Production_Support", "Incident_Resolution"}
    THEN {result.github.status, result.filesystem.status}
    ELSE {result.status}

\* C39: execute_task returns an AgentResponse with status ok only if every
\* ToolCall it dispatched returned status ok: it does not report ok when a
\* call of the task returned pending_approval or error.
C39_OkOnlyIfAllOk ==
    (call.op = "execute_task" /\ ret.status = "ok")
    => ResultStatuses(call.task_name, ret.result) = {"ok"}


(***************************************************************************)
(* The deterministic matcher (app/services/matcher.py, AhoCorasickMatcher).*)
(* A node is {'next': {ch: idx}, 'fail': int, 'outputs': [pattern]}; next  *)
(* is the dict's item sequence, in insertion order.  Node idx is the       *)
(* element idx + 1 of the node sequence.                                   *)
(***************************************************************************)
EmptyNode == [next |-> <<>>, fail |-> 0, outputs |-> <<>>]

\* a reference item
Item(task, text) == [task |-> task, text |-> text]

\* str.strip()
strip(s) ==
    IF \A i \in 1..Len(s) : s[i] \in Whitespace THEN <<>>
    ELSE SubSeq(s,
                CHOOSE i \in 1..Len(s) :
                    s[i] \notin Whitespace /\ \A j \in 1..(i - 1) : s[j] \in Whitespace,
                CHOOSE i \in 1..Len(s) :
                    s[i] \notin Whitespace /\ \A j \in (i + 1)..Len(s) : s[j] \in Whitespace)

\* (it.get('text') or '').strip().lower()
pattern_of(it) == IF it.text = None THEN <<>> ELSE lower(strip(it.text))

\* `ch in node['next']`
has_next(node, ch) == \E k \in 1..Len(node.next) : node.next[k][1] = ch

\* node['next'].get(ch, default)
next_get(node, ch, default) ==
    IF has_next(node, ch)
    THEN node.next[CHOOSE k \in 1..Len(node.next) : node.next[k][1] = ch][2]
    ELSE default

\* the trie with a fresh node appended under `current` for ch
trie_grow(nodes, current, ch) ==
    Append([nodes EXCEPT ![current + 1].next = Append(@, <<ch, Len(nodes)>>)], EmptyNode)

\* for ch in pat: follow or create the child; the trie and the node reached
RECURSIVE trie_insert(_, _, _)
trie_insert(nodes, current, pat) ==
    IF pat = <<>> THEN [nodes |-> nodes, current |-> current]
    ELSE IF has_next(nodes[current + 1], pat[1])
         THEN trie_insert(nodes, next_get(nodes[current + 1], pat[1], 0), Tail(pat))
         ELSE trie_insert(trie_grow(nodes, current, pat[1]), Len(nodes), Tail(pat))

\* a map that takes the task of the last item with the text
first_task_wins_not(pattern_to_task, pat, task) == (pat :> task) @@ pattern_to_task

\* if pat not in self.pattern_to_task: self.pattern_to_task[pat] = it.get('task')
first_task_wins(pattern_to_task, pat, task) ==
    IF pat \in DOMAIN pattern_to_task THEN pattern_to_task
    ELSE (pat :> task) @@ pattern_to_task

\* the pattern recorded at the node its insertion reached
add_output(m, task, pat, w) ==
    [nodes |-> [w.nodes EXCEPT ![w.current + 1].outputs = Append(@, pat)],
     pattern_to_task |-> first_task_wins(m.pattern_to_task, pat, task)]

\* one iteration of the loop over the items: empty patterns are skipped
add_pattern(m, task, pat) ==
    IF pat = <<>> THEN m ELSE add_output(m, task, pat, trie_insert(m.nodes, 0, pat))

RECURSIVE add_items(_, _)
add_items(m, items) ==
    IF items = <<>> THEN m
    ELSE add_items(add_pattern(m, items[1].task, pattern_of(items[1])), Tail(items))

\* while f and ch not in self._nodes[f]['next']: f = self._nodes[f]['fail']
RECURSIVE fail_walk(_, _, _)
fail_walk(nodes, f, ch) ==
    IF f # 0 /\ ~has_next(nodes[f + 1], ch) THEN fail_walk(nodes, nodes[f + 1].fail, ch)
    ELSE f

\* node s gets its failure link fl and inherits the outputs of that node
set_fail(nodes, s, fl) ==
    [nodes EXCEPT ![s + 1].fail = fl, ![s + 1].outputs = @ \o nodes[fl + 1].outputs]

\* the failure link of the child s of r under ch
link_child(nodes, r, ch, s) ==
    set_fail(nodes, s, next_get(nodes[fail_walk(nodes, nodes[r + 1].fail, ch) + 1], ch, 0))

\* for ch, s in list(self._nodes[r]['next'].items()): ...
RECURSIVE link_children(_, _, _)
link_children(nodes, r, kids) ==
    IF kids = <<>> THEN nodes
    ELSE link_children(link_child(nodes, r, kids[1][1], kids[1][2]), r, Tail(kids))

\* the node indices of a next dict, in order
child_indices(kids) == [k \in 1..Len(kids) |-> kids[k][2]]

\* while q: r = q.popleft(); ...
RECURSIVE build_failure_links(_, _)
build_failure_links(nodes, q) ==
    IF q = <<>> THEN nodes
    ELSE build_failure_links(link_children(nodes, Head(q), nodes[Head(q) + 1].next),
                             Tail(q) \o child_indices(nodes[Head(q) + 1].next))

\* the matcher with its failure links built; the children of the root keep
\* fail = 0 and start the queue
with_failure_links(m) ==
    [nodes |-> build_failure_links(m.nodes, child_indices(m.nodes[1].next)),
     pattern_to_task |-> m.pattern_to_task]

\* AhoCorasickMatcher.build(items)
AhoCorasickMatcher_build(items) ==
    with_failure_links(add_items([nodes |-> <<EmptyNode>>, pattern_to_task |-> EmptyDict],
                                 items))

\* for pat in outs: if best is None or len(pat) > len(best): best = pat
RECURSIVE best_of(_, _)
best_of(best, outs) ==
    IF outs = <<>> THEN best
    ELSE best_of(IF best = None \/ Len(outs[1]) > Len(best) THEN outs[1] ELSE best,
                 Tail(outs))

\* the node the scan is in after reading ch from `current`
scan_step(nodes, current, ch) == next_get(nodes[fail_walk(nodes, current, ch) + 1], ch, 0)

\* the rest of the scan from the node reached
RECURSIVE scan(_, _, _, _)
scan_from(nodes, rest, current, best) ==
    scan(nodes, rest, current, best_of(best, nodes[current + 1].outputs))

\* for ch in lprompt: ...
scan(nodes, rest, current, best) ==
    IF rest = <<>> THEN best
    ELSE scan_from(nodes, Tail(rest), scan_step(nodes, current, rest[1]), best)

\* AhoCorasickMatcher.find_best_match(lprompt)
AhoCorasickMatcher_find_best_match(m, lprompt) ==
    IF lprompt = None \/ lprompt = <<>> \/ m.nodes = <<>> THEN None
    ELSE scan(m.nodes, lprompt, 0, None)


(***************************************************************************)
(* The deterministic matcher built from drawn items and asked once.        *)
(***************************************************************************)
\* the strings over an alphabet up to a length
Strings(alphabet, n) == UNION {[1..k -> alphabet] : k \in 0..n}

\* the texts of reference items: strings over two letters, texts to trim and
\* to lower-case, a blank text, a missing text
ItemTexts ==
    Strings({"a", "b"}, MaxPatternLen)
    \cup {<<" ", "a", "B", " ">>, <<"A">>, <<" ">>, None}

\* the task of the item at each position: every item has a task of its own
ItemTasks ==
    <<"Feature_Development", "Production_Support", "Incident_Resolution",
      "Infrastructure_Maintenance", "Lead_Generation", "Proposal_Development">>

\* the item sequences handed to build
ItemLists ==
    UNION {{[i \in 1..k |-> Item(ItemTasks[i], texts[i])] : texts \in [1..k -> ItemTexts]} :
            k \in 0..MaxItems}

\* the queries: strings over the two letters, queries with capitals, None
Queries ==
    Strings({"a", "b"}, MaxQueryLen) \cup {<<"A", "b">>, <<"b", "A", "B">>, None}

\* what a caller sees of a built matcher asked for a query
match_result(m, lprompt) ==
    [match |-> AhoCorasickMatcher_find_best_match(m, lprompt),
     pattern_to_task |-> m.pattern_to_task]

find_best_match_call(items, lprompt) ==
    /\ now < MaxClock
    /\ call' = [op |-> "find_best_match", items |-> items, lprompt |-> lprompt]
    /\ ret' = match_result(AhoCorasickMatcher_build(items), lprompt)
    /\ now' = now + 1
    /\ UNCHANGED <<USER_DB, TASK_POLICY_DB, APPROVALS, approvals_file, approvals_audit,
                   audit_log, invoked, dispatched>>
    /\ UNCHANGED <<router, threads, approvals_tmp, store_history>>
    /\ UNCHANGED <<FAILURE_PROMPTS_CSV, VERIFIED_PROMPTS_CSV, _RECORDER_EXECUTOR>>

MatchOnce ==
    /\ call.op = "none"
    /\ \E items \in ItemLists, lprompt \in Queries : find_best_match_call(items, lprompt)

NextMatcher == MatchOnce

SpecMatcher == Init /\ [][NextMatcher]_vars

(***************************************************************************)
(* Properties of the deterministic matcher.                                *)
(***************************************************************************)
\* the built patterns: the trimmed, lower-cased texts that are not empty
Patterns(items) == {pattern_of(items[i]) : i \in 1..Len(items)} \ {<<>>}

\* the query lower-cased (no query: the empty string)
Lowered(q) == IF q = None THEN <<>> ELSE lower(q)

\* the built patterns that occur in the lower-cased query
Present(items, q) == {pat \in Patterns(items) : Contains(Lowered(q), pat)}

\* the position where the first occurrence of pat in s ends
FirstEnd(s, pat) ==
    CHOOSE e \in 1..Len(s) :
        /\ e >= Len(pat) /\ SubSeq(s, e - Len(pat) + 1, e) = pat
        /\ \A d \in 1..(e - 1) : ~(d >= Len(pat) /\ SubSeq(s, d - Len(pat) + 1, d) = pat)

\* the longest pattern present; among equally long ones, the one whose
\* first occurrence ends first (the one the scan emits first)
LongestPresent(items, q) ==
    IF Present(items, q) = {} THEN None
    ELSE CHOOSE pat \in Present(items, q) :
            \A other \in Present(items, q) :
                \/ Len(pat) > Len(other)
                \/ /\ Len(pat) = Len(other)
                   /\ FirstEnd(Lowered(q), pat) <= FirstEnd(Lowered(q), other)

\* C25: find_best_match returns a longest built pattern that occurs in the
\* lower-cased query (among equally long ones the one emitted first), and
\* no match iff no built pattern occurs in the lower-cased query.
C25_LongestSubstring ==
    call.op = "find_best_match" => ret.match = LongestPresent(call.items, call.lprompt)

(***************************************************************************)
(* The reference corpus (data.py) and the semantic matcher (matcher.py).   *)
(***************************************************************************)
\* REFERENCE_PROMPTS, in the order of the dict literal
REFERENCE_PROMPTS_src ==
    <<<<"Feature_Development",
        <<<<"W", "r", "i", "t", "e", " ", "n", "e", "w", " ", "c", "o", "m", "p", "o", "n", "e", "n", "t">>,
          <<"F", "i", "x", " ", "b", "u", "g">>,
          <<"C", "o", "m", "m", "i", "t", " ", "c", "h", "a", "n", "g", "e">>,
          <<"P", "u", "s", "h", " ", "a", " ", "n", "e", "w", " ", "R", "E", "A", "D", "M", "E", " ", "f", "i", "l", "e", " ", "t", "o", " ", "t", "h", "e", " ", "m", "a", "i", "n", " ", "b", "r", "a", "n", "c", "h", ".">>,
          <<"C", "r", "e", "a", "t", "e", " ", "a", " ", "n", "e", "w", " ", "A", "P", "I", " ", "e", "n", "d", "p", "o", "i", "n", "t", " ", "a", "n", "d", " ", "c", "o", "m", "m", "i", "t", " ", "t", "h", "e", " ", "i", "m", "p", "l", "e", "m", "e", "n", "t", "a", "t", "i", "o", "n">>>>>>,
      <<"Production_Support",
        <<<<"I", "n", "v", "e", "s", "t", "i", "g", "a", "t", "e", " ", "w", "h", "y", " ", "t", "h", "e", " ", "s", "e", "r", "v", "i", "c", "e", " ", "c", "r", "a", "s", "h", "e", "d">>,
          <<"C", "h", "e", "c", "k", " ", "d", "e", "p", "l", "o", "y", "m", "e", "n", "t", " ", "l", "o", "g", "s", " ", "f", "o", "r", " ", "t", "h", "e", " ", "l", "a", "s", "t", " ", "s", "e", "r", "v", "i", "c", "e", " ", "i", "n", "c", "i", "d", "e", "n", "t">>,
          <<"I", "n", "v", "e", "s", "t", "i", "g", "a", "t", "e", " ", "i", "n", "c", "i", "d", "e", "n", "t", " ", "l", "o", "g", "s">>,
          <<"R", "e", "s", "t", "a", "r", "t", " ", "t", "h", "e", " ", "f", "a", "i", "l", "i", "n", "g", " ", "s", "e", "r", "v", "i", "c", "e", " ", "a", "n", "d", " ", "c", "o", "l", "l", "e", "c", "t", " ", "l", "o", "g", "s">>>>>>,
      <<"Incident_Resolution",
        <<<<"T", "r", "o", "u", "b", "l", "e", "s", "h", "o", "o", "t", " ", "s", "y", "s", "t", "e", "m", " ", "l", "o", "g", "s">>,
          <<"I", "n", "v", "e", "s", "t", "i", "g", "a", "t", "e", " ", "i", "n", "c", "i", "d", "e", "n", "t", " ", "l", "o", "g", "s">>>>>>,
      <<"Infrastructure_Maintenance",
        <<<<"R", "u", "n", " ", "m", "a", "i", "n", "t", "e", "n", "a", "n", "c", "e", " ", "s", "c", "r", "i", "p", "t", "s", " ", "o", "n", " ", "t", "h", "e", " ", "s", "e", "r", "v", "e", "r">>,
          <<"P", "e", "r", "f", "o", "r", "m", " ", "i", "n", "f", "r", "a", "s", "t", "r", "u", "c", "t", "u", "r", "e", " ", "u", "p", "g", "r", "a", "d", "e">>,
          <<"A", "p", "p", "l", "y", " ", "s", "e", "c", "u", "r", "i", "t", "y", " ", "p", "a", "t", "c", "h", "e", "s", " ", "t", "o", " ", "s", "e", "r", "v", "e", "r", "s">>>>>>,
      <<"Lead_Generation",
        <<<<"G", "e", "n", "e", "r", "a", "t", "e", " ", "a", " ", "l", "i", "s", "t", " ", "o", "f", " ", "l", "e", "a", "d", "s", " ", "f", "o", "r", " ", "t", "h", "e", " ", "E", "M", "E", "A", " ", "r", "e", "g", "i", "o", "n">>,
          <<"F", "i", "n", "d", " ", "p", "o", "t", "e", "n", "t", "i", "a", "l", " ", "c", "u", "s", "t", "o", "m", "e", "r", "s", " ", "f", "o", "r", " ", "p", "r", "o", "d", "u", "c", "t", " ", "X">>>>>>,
      <<"Proposal_Development",
        <<<<"P", "r", "e", "p", "a", "r", "e", " ", "a", " ", "p", "r", "o", "p", "o", "s", "a", "l", " ", "d", "o", "c", "u", "m", "e", "n", "t", " ", "f", "o", "r", " ", "c", "u", "s", "t", "o", "m", "e", "r">>,
          <<"A", "s", "s", "e", "m", "b", "l", "e", " ", "s", "a", "l", "e", "s", " ", "c", "o", "l", "l", "a", "t", "e", "r", "a", "l", " ", "a", "n", "d", " ", "s", "l", "i", "d", "e", "s", " ", "f", "o", "r", " ", "t", "h", "e", " ", "R", "F", "P">>>>>>>>

\* for task, refs in REFERENCE_PROMPTS.items(): for r in refs: items.append(...)
canonical_items(prompts) ==
    Flatten([k \in 1..Len(prompts) |->
                [j \in 1..Len(prompts[k][2]) |-> Item(prompts[k][1], prompts[k][2][j])]])

\* the rows of prompt_labels.csv that have a prompt and a task, as items
RECURSIVE labeled_items(_)
labeled_items(rows) ==
    IF rows = <<>> THEN <<>>
    ELSE IF Head(rows).prompt # <<>> /\ Head(rows).task # ""
    THEN <<Item(Head(rows).task, Head(rows).prompt)>> \o labeled_items(Tail(rows))
    ELSE labeled_items(Tail(rows))

\* get_reference_items: the labeled rows (when the file exists), then the
\* canonical prompts
get_reference_items(labels_csv) ==
    (IF labels_csv = Nothing THEN <<>> ELSE labeled_items(labels_csv[1]))
    \o canonical_items(REFERENCE_PROMPTS_src)

\* the loop of EmbeddingMatcher.build over the items: the first task of a
\* text is kept (the same two lines as in AhoCorasickMatcher.build)
RECURSIVE text_to_task(_, _)
text_to_task(pattern_to_task, items) ==
    IF items = <<>> THEN pattern_to_task
    ELSE text_to_task(IF pattern_of(Head(items)) = <<>> THEN pattern_to_task
                      ELSE first_task_wins(pattern_to_task, pattern_of(Head(items)),
                                           Head(items).task),
                      Tail(items))

\* the loop over the loaded reference strings: every text is listed, blank
\* ones too, and mapped unless the map has it
RECURSIVE loaded_to_task(_, _)
loaded_to_task(pattern_to_task, loaded) ==
    IF loaded = <<>> THEN pattern_to_task
    ELSE loaded_to_task(first_task_wins(pattern_to_task, pattern_of(Head(loaded)),
                                        Head(loaded).task),
                        Tail(loaded))

\* no persisted embeddings: the files are missing
NoEmbeddings == Nothing

\* persisted embeddings: the number of rows of reference_embeddings.npy, the
\* items of reference_strings.json, and where loading them raises: nowhere
\* ("no"), on reading a file ("read"), on normalising the rows ("normalise")
Embeddings(rows, strings, raises) ==
    Just([rows |-> rows, strings |-> strings, raises |-> raises])

\* the texts of the loaded reference strings, trimmed and lower-cased
loaded_texts(strings) == [k \in 1..Len(strings) |-> pattern_of(strings[k])]

\* EmbeddingMatcher.build: the map from the items; when both files exist the
\* loaded texts extend it and the embeddings are kept, unless loading raises
EmbeddingMatcher_build(items, emb_files) ==
    IF emb_files = Nothing \/ emb_files[1].raises = "read"
    THEN [pattern_to_task |-> text_to_task(EmptyDict, items),
          _texts |-> <<>>, _emb |-> Nothing]
    ELSE [pattern_to_task |-> loaded_to_task(text_to_task(EmptyDict, items),
                                             emb_files[1].strings),
          _texts |-> loaded_texts(emb_files[1].strings),
          _emb |-> IF emb_files[1].raises = "no" THEN Just(emb_files[1].rows)
                   ELSE Nothing]

\* build_matcher_from_items(items): use_embeddings defaults to True
build_matcher_from_items(items, emb_files) == EmbeddingMatcher_build(items, emb_files)

\* a call that returned a value, a call that raised
Returned(v) == [raised |-> FALSE, value |-> v]
Raised == [raised |-> TRUE, value |-> None]

\* what the similarity arithmetic can come to: the row of the largest score,
\* a largest score that is not finite, an exception (rows and query of
\* different dimensions); without embeddings it is not computed
Answer(outcome, row) == [outcome |-> outcome, row |-> row]

Answers(m) ==
    IF m._emb = Nothing THEN {Answer("not finite", 0)}
    ELSE {Answer("not finite", 0), Answer("raise", 0)}
         \cup {Answer("row", k) : k \in 1..m._emb[1]}

\* EmbeddingMatcher.find_best_match: None for an empty query, without
\* embeddings or with no rows; else the text at the row of the largest score
EmbeddingMatcher_find_best_match(m, lprompt, answer) ==
    IF lprompt = <<>> \/ m._emb = Nothing \/ m._emb = Just(0) THEN Returned(None)
    ELSE IF answer.outcome = "raise" THEN Raised
    ELSE IF answer.outcome = "not finite" THEN Returned(None)
    ELSE IF answer.row \in 1..Len(m._texts) THEN Returned(m._texts[answer.row])
    ELSE Raised

(***************************************************************************)
(* The router (router.py).                                                 *)
(***************************************************************************)
\* a quotient of two lengths, kept exact
Frac(n, d) == [num |-> n, den |-> d]

\* DEFAULT_THRESHOLD = 0.55
DEFAULT_THRESHOLD == Frac(11, 20)

\* score >= threshold
score_reaches(score, threshold) == score.num * threshold.den >= threshold.num * score.den

\* max(len(lprompt), 1)
max_len_1(lprompt) == IF Len(lprompt) > 1 THEN Len(lprompt) ELSE 1

\* the router after a load and a build that returned matcher m
Router_built(r, items, m) ==
    [r EXCEPT !.reference_items = Just(items), !.matcher = Just(m),
              !._pattern_to_task = m.pattern_to_task, !._init_done = TRUE,
              !.loads = @ + 1, !.builds = @ + 1]

\* the router after a load and a build that raised: no matcher, an empty map
Router_unbuilt(r, items) ==
    [r EXCEPT !.reference_items = Just(items), !.matcher = Nothing,
              !._pattern_to_task = EmptyDict, !._init_done = TRUE,
              !.loads = @ + 1, !.builds = @ + 1, !.raised = @ + 1]

\* the body of _init_items after the early return
load_and_build(r, items, emb_files, build_ok) ==
    IF build_ok THEN Router_built(r, items, build_matcher_from_items(items, emb_files))
    ELSE Router_unbuilt(r, items)

\* Router._init_items, inside the lock: nothing when the router is
\* initialised and has corpus and matcher; else the corpus is loaded and the
\* matcher built (build_ok: the build does not raise), and the flag is set
Router_init_items(r, labels_csv, emb_files, build_ok) ==
    IF r._init_done /\ r.reference_items # Nothing /\ r.matcher # Nothing THEN r
    ELSE load_and_build(r, get_reference_items(labels_csv), emb_files, build_ok)

\* (prompt or '').lower()
lprompt_of(prompt) == IF prompt = None THEN <<>> ELSE lower(prompt)

\* best_pat after the try: the value returned, None when the lookup raised
caught(outcome) == IF outcome.raised THEN None ELSE outcome.value

\* the lookup in the matcher: None without a matcher and when it raises
matcher_lookup(r, lprompt, answer) ==
    IF r.matcher = Nothing THEN None
    ELSE caught(EmbeddingMatcher_find_best_match(r.matcher[1], lprompt, answer))

\* the fallback loop: the text of the first item whose trimmed, lower-cased
\* text is not empty and occurs in lprompt, None when there is none
RECURSIVE substring_scan(_, _)
substring_scan(items, lprompt) ==
    IF items = <<>> THEN None
    ELSE IF pattern_of(Head(items)) # <<>> /\ Contains(lprompt, pattern_of(Head(items)))
    THEN pattern_of(Head(items))
    ELSE substring_scan(Tail(items), lprompt)

\* a router without the fallback loop
best_pat_of_no_fallback(r, lprompt, found) == found

\* best_pat after the lookup and, when that gave None, the fallback loop
best_pat_of(r, lprompt, found) ==
    IF found = None THEN substring_scan(r.reference_items[1], lprompt) ELSE found

\* _RECORDER_EXECUTOR.submit(_safe): the job waits in the queue
submit(prompt, success, task) ==
    [_RECORDER_EXECUTOR EXCEPT
        !.queue = Append(@, [prompt |-> prompt, success |-> success, task |-> task])]

\* the _submit_record call of route_prompt for the dict res it returns: the
\* task on success, a failure without a task otherwise
recorded(prompt, res) ==
    IF res.error = "<None>" THEN submit(prompt, TRUE, res.task)
    ELSE submit(prompt, FALSE, "<None>")

\* the dict route_prompt returns for best_pat
route_result(pattern_to_task, best_pat, lprompt, threshold) ==
    IF best_pat # None /\ best_pat # <<>>
    THEN IF score_reaches(Frac(Len(best_pat), max_len_1(lprompt)), threshold)
         THEN [task |-> Get(pattern_to_task, best_pat, "<None>"),
               score |-> Just(Frac(Len(best_pat), max_len_1(lprompt))), error |-> "<None>"]
         ELSE [task |-> "<None>", score |-> Just(Frac(Len(best_pat), max_len_1(lprompt))),
               error |-> "no match (below threshold)"]
    ELSE [task |-> "<None>", score |-> Nothing, error |-> "no match"]

\* Router.route_prompt on the initialised router r
routed(r, lprompt, threshold, answer) ==
    route_result(r._pattern_to_task,
                 best_pat_of(r, lprompt, matcher_lookup(r, lprompt, answer)),
                 lprompt, threshold)

\* the answers open to the router's matcher (none is computed without one)
RouterAnswers(r) ==
    IF r.matcher = Nothing THEN {Answer("not finite", 0)} ELSE Answers(r.matcher[1])

\* Router.route_prompt(prompt, threshold): _init_items first, then the match
\* on the router r it left
Router_route_prompt(r, prompt, threshold, answer, env) ==
    /\ now < MaxClock
    /\ answer \in RouterAnswers(r)
    /\ router' = r
    /\ call' = [op |-> "Router.route_prompt", prompt |-> prompt, threshold |-> threshold,
                answer |-> answer, env |-> env]
    /\ ret' = routed(r, lprompt_of(prompt), threshold, answer)
    /\ now' = now + 1
    /\ UNCHANGED <<USER_DB, TASK_POLICY_DB, APPROVALS, approvals_file, approvals_audit,
                   audit_log, invoked, dispatched>>
    /\ _RECORDER_EXECUTOR' = recorded(prompt, ret')
    /\ UNCHANGED <<threads, approvals_tmp, store_history>>
    /\ UNCHANGED <<FAILURE_PROMPTS_CSV, VERIFIED_PROMPTS_CSV>>

\* the module's route_prompt(prompt) with the flags _EMB_AVAILABLE and
\* _INIT_DONE: both only set _init_done, and _EMB_AVAILABLE = False forces
\* the threshold 0.0; the thread init_router starts runs _init_items, which
\* the call runs itself
forced_threshold(emb_available) ==
    IF emb_available = "False" THEN Frac(0, 1) ELSE DEFAULT_THRESHOLD

flagged(r, emb_available, init_done) ==
    IF emb_available = "False" \/ init_done THEN [r EXCEPT !._init_done = TRUE] ELSE r

route_prompt(r, prompt, emb_available, answer, env) ==
    /\ now < MaxClock
    /\ answer \in RouterAnswers(r)
    /\ router' = r
    /\ call' = [op |-> "route_prompt", prompt |-> prompt,
                threshold |-> forced_threshold(emb_available),
                answer |-> answer, env |-> env]
    /\ ret' = routed(r, lprompt_of(prompt), forced_threshold(emb_available), answer)
    /\ now' = now + 1
    /\ UNCHANGED <<USER_DB, TASK_POLICY_DB, APPROVALS, approvals_file, approvals_audit,
                   audit_log, invoked, dispatched>>
    /\ _RECORDER_EXECUTOR' = recorded(prompt, ret')
    /\ UNCHANGED <<threads, approvals_tmp, store_history>>
    /\ UNCHANGED <<FAILURE_PROMPTS_CSV, VERIFIED_PROMPTS_CSV>>

(***************************************************************************)
(* The router asked once, in each state of the data directory.             *)
(***************************************************************************)
\* a row of prompt_labels.csv
Row(prompt, task) == [prompt |-> prompt, task |-> task]

\* prompt_labels.csv: missing, empty, a curated label for a canonical text,
\* curated labels next to malformed rows
LabelFiles ==
    {Nothing,
     Just(<<>>),
     Just(<<Row(<<"I", "n", "v", "e", "s", "t", "i", "g", "a", "t", "e", " ", "i", "n", "c", "i", "d", "e", "n", "t", " ", "l", "o", "g", "s">>, "Incident_Resolution")>>),
     Just(<<Row(<<"d", "e", "p", "l", "o", "y", " ", "s", "i", "t", "e">>, "Infrastructure_Maintenance"),
            Row(<<" ", "F", "i", "x", " ", "B", "u", "g", " ">>, "Production_Support"),
            Row(<<>>, "Lead_Generation"),
            Row(<<"o", "r", "p", "h", "a", "n">>, "")>>)}

\* the persisted embeddings: missing; three rows for two reference strings
\* (one a canonical text under another task); a blank reference string;
\* files that exist and fail to load; no rows
EmbeddingFiles ==
    {NoEmbeddings,
     Embeddings(3, <<Item("Lead_Generation", <<"f", "i", "n", "d", " ", "l", "e", "a", "d", "s">>),
                     Item("Incident_Resolution", <<"F", "i", "x", " ", "b", "u", "g">>)>>, "no"),
     Embeddings(2, <<Item("Lead_Generation", <<" ", " ">>),
                     Item("Lead_Generation", <<"f", "i", "n", "d", " ", "l", "e", "a", "d", "s">>)>>, "no"),
     Embeddings(1, <<Item("Lead_Generation", <<"f", "i", "n", "d", " ", "l", "e", "a", "d", "s">>)>>, "read"),
     Embeddings(1, <<Item("Lead_Generation", <<"f", "i", "n", "d", " ", "l", "e", "a", "d", "s">>)>>, "normalise"),
     Embeddings(0, <<>>, "no")}

\* the data directory and the outcome of the build
Environments ==
    [labels_csv : LabelFiles, emb_files : EmbeddingFiles, build_ok : BOOLEAN]

RouterPrompts ==
    {None, <<>>,
     <<"P", "u", "s", "h", " ", "a", " ", "n", "e", "w", " ", "R", "E", "A", "D", "M", "E", " ", "f", "i", "l", "e", " ", "t", "o", " ", "t", "h", "e", " ", "m", "a", "i", "n", " ", "b", "r", "a", "n", "c", "h", ".">>,
     <<"C", "h", "e", "c", "k", " ", "d", "e", "p", "l", "o", "y", "m", "e", "n", "t", " ", "l", "o", "g", "s", " ", "f", "o", "r", " ", "t", "h", "e", " ", "l", "a", "s", "t", " ", "s", "e", "r", "v", "i", "c", "e", " ", "i", "n", "c", "i", "d", "e", "n", "t", ".">>,
     <<"F", "i", "x", " ", "b", "u", "g", " ", "i", "n", " ", "t", "h", "e", " ", "p", "a", "y", "m", "e", "n", "t", " ", "c", "o", "m", "p", "o", "n", "e", "n", "t">>,
     <<"F", "I", "X", " ", "B", "U", "G">>,
     <<"F", "i", "x", " ", "b", "u", "g">>,
     <<"d", "e", "p", "l", "o", "y", " ", "s", "i", "t", "e", " ", "t", "o", "n", "i", "g", "h", "t", "!">>,
     <<"I", "n", "v", "e", "s", "t", "i", "g", "a", "t", "e", " ", "i", "n", "c", "i", "d", "e", "n", "t", " ", "l", "o", "g", "s">>,
     <<"p", "l", "e", "a", "s", "e", " ", "f", "i", "n", "d", " ", "l", "e", "a", "d", "s">>,
     <<"h", "e", "l", "l", "o", " ", "w", "o", "r", "l", "d">>,
     <<"A", "p", "p", "l", "y", " ", "s", "e", "c", "u", "r", "i", "t", "y", " ", "p", "a", "t", "c", "h", "e", "s", " ", "t", "o", " ", "s", "e", "r", "v", "e", "r", "s", " ", "b", "e", "f", "o", "r", "e", " ", "t", "h", "e", " ", "w", "e", "e", "k", "e", "n", "d", " ", "s", "t", "a", "r", "t", "s", ".">>}

Thresholds == {Frac(0, 1), DEFAULT_THRESHOLD, Frac(1, 1)}

AnswerSet ==
    {Answer("not finite", 0), Answer("raise", 0)} \cup {Answer("row", k) : k \in 1..3}

\* the router after _init_items in the environment env
initialised(r, env) == Router_init_items(r, env.labels_csv, env.emb_files, env.build_ok)

RoutePromptOnce ==
    /\ call.op = "none"
    /\ \E env \in Environments, prompt \in RouterPrompts, threshold \in Thresholds,
          answer \in AnswerSet :
            Router_route_prompt(initialised(router, env), prompt, threshold, answer, env)

ModuleRoutePromptOnce ==
    /\ call.op = "none"
    /\ \E env \in Environments, prompt \in RouterPrompts,
          emb_available \in {"None", "False"}, init_done \in BOOLEAN,
          answer \in AnswerSet :
            route_prompt(initialised(flagged(router, emb_available, init_done), env),
                         prompt, emb_available, answer, env)

NextRouter == RoutePromptOnce \/ ModuleRoutePromptOnce

SpecRouter == Init /\ [][NextRouter]_vars

(***************************************************************************)
(* The router under concurrent callers: route_prompt, init_router and the  *)
(* threads init_router starts, one statement of _init_items at a time.     *)
(***************************************************************************)
\* a thread: what it runs, where it is, its local items, what its lookup saw
\* and the task it returned
Thread(kind, pc) ==
    [kind |-> kind, pc |-> pc, items |-> <<>>, seen |-> "nothing", task |-> "<None>"]

\* the thread t moves to pc
goto(t, pc) == [threads EXCEPT ![t].pc = pc]

\* threading.Thread(target=_GLOBAL_ROUTER._init_items).start()
spawned(ths) == Append(ths, Thread("_init_items", "lock"))

\* corpus, matcher and map are those of one completed build
FullyBuilt(r) ==
    /\ r._init_done
    /\ r.reference_items # Nothing
    /\ r.matcher # Nothing
    /\ r._pattern_to_task = r.matcher[1].pattern_to_task

\* route_prompt(prompt), lines 136-141: the flags only set _init_done
route_prompt_begin(emb_available, init_done) ==
    /\ Len(threads) + 2 <= MaxThreads
    /\ router' = flagged(router, emb_available, init_done)
    /\ threads' = Append(threads, Thread("route_prompt", "init_check"))

\* route_prompt, line 143: `if not _GLOBAL_ROUTER._init_done`
route_prompt_init_check(t) ==
    /\ threads[t].pc = "init_check"
    /\ threads' = goto(t, IF router._init_done THEN "lock" ELSE "init_router")
    /\ router' = router

\* init_router(preload, background), lines 116-118 and the entry of 119
init_router_begin(preload, background) ==
    /\ Len(threads) + 2 <= MaxThreads
    /\ router' = IF preload THEN router ELSE [router EXCEPT !._init_done = TRUE]
    /\ threads' = Append(threads,
                         Thread("init_router",
                                IF ~preload THEN "end"
                                ELSE IF background THEN "init_router" ELSE "inline"))

\* init_router, lines 119-123: nothing when initialised, else a thread is
\* started on _init_items
init_router_background(t) ==
    /\ threads[t].pc = "init_router"
    /\ threads' = IF router._init_done
                  THEN goto(t, IF threads[t].kind = "route_prompt" THEN "lock" ELSE "end")
                  ELSE spawned(goto(t, IF threads[t].kind = "route_prompt" THEN "lock"
                                       ELSE "end"))
    /\ router' = router

\* init_router, lines 119-125 with background=False: _init_items in the caller
init_router_inline(t) ==
    /\ threads[t].pc = "inline"
    /\ threads' = goto(t, IF router._init_done THEN "end" ELSE "lock")
    /\ router' = router

\* _init_items, line 45: `with self._init_lock`
init_items_acquire(t) ==
    /\ threads[t].pc = "lock"
    /\ router._init_lock = 0
    /\ router' = [router EXCEPT !._init_lock = t]
    /\ threads' = goto(t, "check")

\* line 47: the early return
init_items_check(t) ==
    /\ threads[t].pc = "check"
    /\ threads' = goto(t, IF router._init_done /\ router.reference_items # Nothing
                              /\ router.matcher # Nothing
                           THEN "unlock" ELSE "load")
    /\ router' = router

\* line 50: items = get_reference_items() (no labels file)
init_items_load(t) ==
    /\ threads[t].pc = "load"
    /\ threads' = [threads EXCEPT ![t].pc = "set_items",
                                  ![t].items = get_reference_items(Nothing)]
    /\ router' = [router EXCEPT !.loads = @ + 1]

\* line 51: self.reference_items = items
init_items_set_items(t) ==
    /\ threads[t].pc = "set_items"
    /\ router' = [router EXCEPT !.reference_items = Just(threads[t].items)]
    /\ threads' = goto(t, "build")

\* line 54: self.matcher = build_matcher_from_items(items) (no embeddings),
\* or the build raises
init_items_build(t, build_ok) ==
    /\ threads[t].pc = "build"
    /\ router' = IF build_ok
                 THEN [router EXCEPT !.builds = @ + 1,
                                     !.matcher = Just(build_matcher_from_items(
                                                         threads[t].items, NoEmbeddings))]
                 ELSE [router EXCEPT !.builds = @ + 1, !.raised = @ + 1]
    /\ threads' = goto(t, IF build_ok THEN "set_map" ELSE "except")

\* line 55: self._pattern_to_task = getattr(self.matcher, 'pattern_to_task', {}) or {}
init_items_set_map(t) ==
    /\ threads[t].pc = "set_map"
    /\ router' = [router EXCEPT !._pattern_to_task =
                                    IF router.matcher = Nothing THEN EmptyDict
                                    ELSE router.matcher[1].pattern_to_task]
    /\ threads' = goto(t, "done")

\* lines 56-59: self.matcher = None; self._pattern_to_task = {}
init_items_except(t) ==
    /\ threads[t].pc = "except"
    /\ router' = [router EXCEPT !.matcher = Nothing, !._pattern_to_task = EmptyDict]
    /\ threads' = goto(t, "done")

\* line 61: self._init_done = True
init_items_done(t) ==
    /\ threads[t].pc = "done"
    /\ router' = [router EXCEPT !._init_done = TRUE]
    /\ threads' = goto(t, "unlock")

\* the end of the with block: the lock is released
init_items_release(t) ==
    /\ threads[t].pc = "unlock"
    /\ router' = [router EXCEPT !._init_lock = 0]
    /\ threads' = goto(t, IF threads[t].kind = "route_prompt" THEN "items" ELSE "end")

\* Router.route_prompt, line 70: items = self.reference_items
route_prompt_items(t) ==
    /\ threads[t].pc = "items"
    /\ threads' = [threads EXCEPT ![t].pc = "lookup",
                                  ![t].items = IF router.reference_items = Nothing
                                               THEN get_reference_items(Nothing)
                                               ELSE router.reference_items[1]]
    /\ router' = IF router.reference_items = Nothing
                 THEN [router EXCEPT !.reference_items = Just(get_reference_items(Nothing))]
                 ELSE router

\* lines 79-84: the lookup in self.matcher, if there is one; what the
\* router was when it was made is recorded
route_prompt_lookup(t) ==
    /\ threads[t].pc = "lookup"
    /\ threads' = [threads EXCEPT ![t].pc = "resolve",
                                  ![t].seen = IF router.matcher = Nothing THEN "no matcher"
                                              ELSE IF FullyBuilt(router) THEN "built"
                                              ELSE "partial"]
    /\ router' = router

\* lines 86-108 for the prompt 'Fix bug' (the matcher without embeddings
\* returned None): the scan over the thread's items, the task from the map
route_prompt_resolve(t) ==
    /\ threads[t].pc = "resolve"
    /\ threads' = [threads EXCEPT
                      ![t].pc = "end",
                      ![t].task = route_result(router._pattern_to_task,
                                               substring_scan(threads[t].items, s_fix_bug),
                                               s_fix_bug, DEFAULT_THRESHOLD).task]
    /\ _RECORDER_EXECUTOR' =
          recorded(s_Fix_bug,
                   route_result(router._pattern_to_task,
                                substring_scan(threads[t].items, s_fix_bug),
                                s_fix_bug, DEFAULT_THRESHOLD))
    /\ router' = router

\* the variables the router's threads leave alone
RouterFrame ==
    UNCHANGED <<USER_DB, TASK_POLICY_DB, APPROVALS, approvals_file, approvals_audit,
                audit_log, now, call, ret, invoked, dispatched, approvals_tmp,
                store_history, FAILURE_PROMPTS_CSV, VERIFIED_PROMPTS_CSV>>

\* the steps before the last one leave the recorder alone
RouterStepFrame == RouterFrame /\ UNCHANGED _RECORDER_EXECUTOR

BeginRoutePrompt ==
    /\ RouterStepFrame
    /\ \E emb_available \in {"None", "False"}, init_done \in BOOLEAN :
          route_prompt_begin(emb_available, init_done)

BeginInitRouter ==
    /\ RouterStepFrame
    /\ \E preload \in BOOLEAN, background \in BOOLEAN : init_router_begin(preload, background)

InitCheck == RouterStepFrame /\ \E t \in 1..Len(threads) : route_prompt_init_check(t)
Background == RouterStepFrame /\ \E t \in 1..Len(threads) : init_router_background(t)
Inline == RouterStepFrame /\ \E t \in 1..Len(threads) : init_router_inline(t)
Acquire == RouterStepFrame /\ \E t \in 1..Len(threads) : init_items_acquire(t)
Check == RouterStepFrame /\ \E t \in 1..Len(threads) : init_items_check(t)
Load == RouterStepFrame /\ \E t \in 1..Len(threads) : init_items_load(t)
SetItems == RouterStepFrame /\ \E t \in 1..Len(threads) : init_items_set_items(t)
Build ==
    RouterStepFrame /\ \E t \in 1..Len(threads), build_ok \in BOOLEAN : init_items_build(t, build_ok)
SetMap == RouterStepFrame /\ \E t \in 1..Len(threads) : init_items_set_map(t)
Except == RouterStepFrame /\ \E t \in 1..Len(threads) : init_items_except(t)
Done == RouterStepFrame /\ \E t \in 1..Len(threads) : init_items_done(t)
Release == RouterStepFrame /\ \E t \in 1..Len(threads) : init_items_release(t)
Items == RouterStepFrame /\ \E t \in 1..Len(threads) : route_prompt_items(t)
Lookup == RouterStepFrame /\ \E t \in 1..Len(threads) : route_prompt_lookup(t)
Resolve == RouterFrame /\ \E t \in 1..Len(threads) : route_prompt_resolve(t)

NextRouterThreads ==
    \/ BeginRoutePrompt \/ BeginInitRouter \/ InitCheck \/ Background \/ Inline
    \/ Acquire \/ Check \/ Load \/ SetItems \/ Build \/ SetMap \/ Except \/ Done
    \/ Release \/ Items \/ Lookup \/ Resolve

SpecRouterThreads == Init /\ [][NextRouterThreads]_vars

(***************************************************************************)
(* The recorder: record_routing_result (app/core/data.py) run by the       *)
(* workers of _RECORDER_EXECUTOR, one file operation at a time.            *)
(***************************************************************************)
\* csv.writer: None is written as the empty field
csv_written(prompt) == IF prompt = None THEN <<>> ELSE prompt

\* a field as csv.reader gives it back from a file opened without
\* newline='': a carriage return, alone or before a line feed, is a line feed
RECURSIVE csv_read(_)
csv_read(field) ==
    IF field = <<>> THEN <<>>
    ELSE IF Head(field) = "\r"
    THEN IF Len(field) > 1 /\ field[2] = "\n"
         THEN <<"\n">> \o csv_read(Tail(Tail(field)))
         ELSE <<"\n">> \o csv_read(Tail(field))
    ELSE <<Head(field)>> \o csv_read(Tail(field))

\* the header of verified_prompts.csv, line 177
verified_header == <<<<"p", "r", "o", "m", "p", "t">>, "task", "source", "ts">>

\* lines 161-166 and 181-185: a row from the row first on has the prompt
prompt_in_rows(rows, first, prompt) ==
    \E i \in first..Len(rows) : csv_read(rows[i][1]) = prompt

\* a worker takes the job at the head of the queue
worker_take(w) ==
    /\ _RECORDER_EXECUTOR.workers[w].pc = "idle"
    /\ _RECORDER_EXECUTOR.queue # <<>>
    /\ _RECORDER_EXECUTOR' =
          [queue |-> Tail(_RECORDER_EXECUTOR.queue),
           workers |-> [_RECORDER_EXECUTOR.workers EXCEPT
                           ![w] = [pc |-> IF Head(_RECORDER_EXECUTOR.queue).success
                                          THEN "header_check" ELSE "failure_read",
                                   prompt |-> Head(_RECORDER_EXECUTOR.queue).prompt,
                                   success |-> Head(_RECORDER_EXECUTOR.queue).success,
                                   task |-> Head(_RECORDER_EXECUTOR.queue).task]]]
    /\ UNCHANGED <<FAILURE_PROMPTS_CSV, VERIFIED_PROMPTS_CSV>>

\* the worker w at pc, with the rest of its job
worker_at(w, pc) == [_RECORDER_EXECUTOR EXCEPT !.workers[w].pc = pc]

worker_done(w) == [_RECORDER_EXECUTOR EXCEPT !.workers[w] = IdleWorker]

\* lines 158-166: the failure log is read for the prompt
failure_read(w) ==
    /\ _RECORDER_EXECUTOR.workers[w].pc = "failure_read"
    /\ _RECORDER_EXECUTOR' =
          IF /\ FAILURE_PROMPTS_CSV.exists
             /\ prompt_in_rows(FAILURE_PROMPTS_CSV.data, 1,
                               _RECORDER_EXECUTOR.workers[w].prompt)
          THEN worker_done(w) ELSE worker_at(w, "failure_append")
    /\ UNCHANGED <<FAILURE_PROMPTS_CSV, VERIFIED_PROMPTS_CSV>>

\* lines 167-170: the row is appended
failure_append(w) ==
    /\ _RECORDER_EXECUTOR.workers[w].pc = "failure_append"
    /\ FAILURE_PROMPTS_CSV' =
          [exists |-> TRUE,
           data |-> Append(FAILURE_PROMPTS_CSV.data,
                           <<csv_written(_RECORDER_EXECUTOR.workers[w].prompt), "router", now>>)]
    /\ _RECORDER_EXECUTOR' = worker_done(w)
    /\ UNCHANGED VERIFIED_PROMPTS_CSV

\* line 174: does the verified log exist
header_check(w) ==
    /\ _RECORDER_EXECUTOR.workers[w].pc = "header_check"
    /\ _RECORDER_EXECUTOR' =
          IF VERIFIED_PROMPTS_CSV.exists THEN worker_at(w, "verified_read")
          ELSE worker_at(w, "header_write")
    /\ UNCHANGED <<FAILURE_PROMPTS_CSV, VERIFIED_PROMPTS_CSV>>

\* lines 175-177: open(vp, 'w') empties the file and the header is written
header_write(w) ==
    /\ _RECORDER_EXECUTOR.workers[w].pc = "header_write"
    /\ VERIFIED_PROMPTS_CSV' = [exists |-> TRUE, data |-> <<verified_header>>]
    /\ _RECORDER_EXECUTOR' = worker_at(w, "verified_read")
    /\ UNCHANGED FAILURE_PROMPTS_CSV

\* lines 179-185: the rows after the header are read for the prompt
verified_read(w) ==
    /\ _RECORDER_EXECUTOR.workers[w].pc = "verified_read"
    /\ _RECORDER_EXECUTOR' =
          IF prompt_in_rows(VERIFIED_PROMPTS_CSV.data, 2, _RECORDER_EXECUTOR.workers[w].prompt)
          THEN worker_done(w) ELSE worker_at(w, "verified_append")
    /\ UNCHANGED <<FAILURE_PROMPTS_CSV, VERIFIED_PROMPTS_CSV>>

\* lines 186-189: the row is appended, with '' for no task
verified_append(w) ==
    /\ _RECORDER_EXECUTOR.workers[w].pc = "verified_append"
    /\ VERIFIED_PROMPTS_CSV' =
          [exists |-> TRUE,
           data |-> Append(VERIFIED_PROMPTS_CSV.data,
                           <<csv_written(_RECORDER_EXECUTOR.workers[w].prompt),
                             IF _RECORDER_EXECUTOR.workers[w].task = "<None>" THEN ""
                             ELSE _RECORDER_EXECUTOR.workers[w].task,
                             "router", now>>)]
    /\ _RECORDER_EXECUTOR' = worker_done(w)
    /\ UNCHANGED FAILURE_PROMPTS_CSV

\* the variables the workers leave alone
RecorderFrame ==
    UNCHANGED <<USER_DB, TASK_POLICY_DB, APPROVALS, approvals_file, approvals_audit,
                audit_log, now, call, ret, invoked, dispatched, router, threads,
                approvals_tmp, store_history>>

\* the prompts routed: a canonical text, one that matches nothing, one with
\* a carriage return
RecorderPrompts ==
    {s_Fix_bug,
     <<"h", "e", "l", "l", "o", " ", "w", "o", "r", "l", "d">>,
     <<"a", "\r", "b">>}

\* the data directory of the recorder's runs: no labels, no embeddings
RecorderEnvironment == [labels_csv |-> Nothing, emb_files |-> NoEmbeddings, build_ok |-> TRUE]

RoutePrompt ==
    \E prompt \in RecorderPrompts, answer \in AnswerSet :
        route_prompt(initialised(router, RecorderEnvironment), prompt, "None", answer,
                     RecorderEnvironment)

WorkerTake == RecorderFrame /\ \E w \in 1..max_workers : worker_take(w)
FailureRead == RecorderFrame /\ \E w \in 1..max_workers : failure_read(w)
FailureAppend == RecorderFrame /\ \E w \in 1..max_workers : failure_append(w)
HeaderCheck == RecorderFrame /\ \E w \in 1..max_workers : header_check(w)
HeaderWrite == RecorderFrame /\ \E w \in 1..max_workers : header_write(w)
VerifiedRead == RecorderFrame /\ \E w \in 1..max_workers : verified_read(w)
VerifiedAppend == RecorderFrame /\ \E w \in 1..max_workers : verified_append(w)

NextRecorder ==
    \/ RoutePrompt \/ WorkerTake \/ FailureRead \/ FailureAppend \/ HeaderCheck
    \/ HeaderWrite \/ VerifiedRead \/ VerifiedAppend

SpecRecorder == Init /\ [][NextRecorder]_vars

(***************************************************************************)
(* Properties of the recorder.                                             *)
(***************************************************************************)
\* no two rows from the row first on hold the same prompt
OneRowPerPrompt(rows, first) ==
    \A i, j \in first..Len(rows) : i # j => rows[i][1] # rows[j][1]

\* C33: after any number of route_prompt calls whose records the workers of
\* the pool write, the failure-prompts log holds at most one row per
\* literal prompt and so does the verified-prompts log.
C33_DedupByPrompt ==
    /\ OneRowPerPrompt(FAILURE_PROMPTS_CSV.data, 1)
    /\ OneRowPerPrompt(VERIFIED_PROMPTS_CSV.data, 2)

(***************************************************************************)
(* Properties of the router.                                               *)
(***************************************************************************)
\* the state follows a call of Router.route_prompt, direct or through the
\* module's route_prompt
RouteCalled == call.op \in {"Router.route_prompt", "route_prompt"}

\* the lower-cased prompt of the call
CalledPrompt == lprompt_of(call.prompt)

\* what the matcher gave for the call: absent, raised, or a value
LookupAbsent == router.matcher = Nothing

LookupOutcome == EmbeddingMatcher_find_best_match(router.matcher[1], CalledPrompt, call.answer)

LookupFailed == LookupAbsent \/ LookupOutcome.raised \/ LookupOutcome.value = None

\* the corpus of the router
Corpus == router.reference_items[1]

\* the positions of the corpus whose trimmed, lower-cased text is text
Occurrences(text) == {i \in 1..Len(Corpus) : pattern_of(Corpus[i]) = text}

\* the positions of the corpus whose text is not empty and occurs in the prompt
SubstringPositions ==
    {i \in 1..Len(Corpus) :
        pattern_of(Corpus[i]) # <<>> /\ Contains(CalledPrompt, pattern_of(Corpus[i]))}

Least(S) == CHOOSE i \in S : \A j \in S : i <= j

\* the text the linear scan finds: of the first position, None if there is none
ScanText ==
    IF SubstringPositions = {} THEN None ELSE pattern_of(Corpus[Least(SubstringPositions)])

\* the text the call matched: the matcher's, or the scan's when that failed
MatchedText == IF LookupFailed THEN ScanText ELSE LookupOutcome.value

\* the reference strings the semantic matcher loaded
LoadedStrings ==
    IF call.env.emb_files = Nothing \/ call.env.emb_files[1].raises = "read" THEN <<>>
    ELSE call.env.emb_files[1].strings

\* the task of a reference text: of its first occurrence in the corpus, else
\* of its first occurrence among the loaded reference strings
TaskOfText(text) ==
    IF Occurrences(text) # {} THEN Corpus[Least(Occurrences(text))].task
    ELSE LoadedStrings[Least({k \in 1..Len(LoadedStrings) :
                                  pattern_of(LoadedStrings[k]) = text})].task

\* len(matched text) / max(len(prompt), 1)
Confidence == Frac(Len(MatchedText), IF CalledPrompt = <<>> THEN 1 ELSE Len(CalledPrompt))

ReachesThreshold ==
    Confidence.num * call.threshold.den >= call.threshold.num * Confidence.den

\* C24: with a matched text, the score is len(text) / max(len(prompt), 1);
\* the call reports the task of the text with error null iff the score is at
\* least the threshold, else task null and 'no match (below threshold)';
\* with no matched text it reports task null, score null and 'no match'.
C24_ConfidenceThreshold ==
    RouteCalled =>
        IF MatchedText # None /\ MatchedText # <<>>
        THEN /\ ret.score = Just(Confidence)
             /\ IF ReachesThreshold
                THEN ret.task = TaskOfText(MatchedText) /\ ret.error = "<None>"
                ELSE ret.task = "<None>" /\ ret.error = "no match (below threshold)"
        ELSE ret = [task |-> "<None>", score |-> Nothing, error |-> "no match"]

\* the texts that several items of the corpus carry
CorpusTexts == {pattern_of(Corpus[i]) : i \in 1..Len(Corpus)} \ {<<>>}

\* the labeled rows come first in the corpus, the canonical prompts after them
LabeledFirst ==
    Corpus = (IF call.env.labels_csv = Nothing THEN <<>>
              ELSE labeled_items(call.env.labels_csv[1]))
             \o canonical_items(REFERENCE_PROMPTS_src)

\* C26: a text that several reference items carry resolves to the task of
\* its first occurrence in the corpus, where labeled rows precede canonical
\* prompts: in the map the matcher builds and in the task the router reports.
C26_FirstOccurrenceWins ==
    RouteCalled =>
        /\ LabeledFirst
        /\ \A text \in CorpusTexts :
              /\ Get(router._pattern_to_task, text, "<None>") = TaskOfText(text)
              /\ ~LookupAbsent
                    => router.matcher[1].pattern_to_task[text] = TaskOfText(text)
        /\ (ret.error = "<None>" /\ MatchedText \in CorpusTexts)
               => ret.task = TaskOfText(MatchedText)

\* C28: when the matcher is absent, raises or returns None (as the semantic
\* matcher without embeddings always does), the call answers from the first
\* corpus item whose text occurs in the prompt, and it always answers.
C28_FallbackScan ==
    RouteCalled =>
        /\ (~LookupAbsent /\ router.matcher[1]._emb = Nothing)
              => LookupOutcome = Returned(None)
        /\ LookupFailed
              => ret = route_result(router._pattern_to_task, ScanText, CalledPrompt,
                                    call.threshold)
        /\ ret.error \in {"<None>", "no match (below threshold)", "no match"}

\* the semantic matcher raised on 'Fix bug in the payment component', the
\* scan found 'fix bug' and the call succeeded with threshold 0
C28_Witness ==
    /\ RouteCalled
    /\ ~LookupAbsent
    /\ LookupOutcome.raised
    /\ ScanText = lower(<<"F", "i", "x", " ", "b", "u", "g">>)
    /\ Len(CalledPrompt) > 7
    /\ ret.task = "Feature_Development"

\* the task names of the reference items: of the corpus and of the loaded
\* reference strings
ReferenceTasks ==
    {Corpus[i].task : i \in 1..Len(Corpus)}
    \cup {LoadedStrings[k].task : k \in 1..Len(LoadedStrings)}

\* C38: whenever Router.route_prompt returns error null, the task it returns
\* is the task name of some reference item and not null, also when the
\* matcher was not built or raised and the linear scan produced the match.
C38_SuccessHasTask ==
    (RouteCalled /\ ret.error = "<None>")
    => ret.task # "<None>" /\ ret.task \in ReferenceTasks

(***************************************************************************)
(* Properties of the router's initialisation under concurrent callers.     *)
(***************************************************************************)
\* the statements of _init_items inside the with block
InitSection == {"check", "load", "set_items", "build", "set_map", "except", "done", "unlock"}

\* C27: under every interleaving of route_prompt and init_router calls and
\* the threads they start, the corpus is loaded and the matcher built at
\* most once, both inside the init lock, and every matcher lookup of
\* route_prompt sees the corpus, matcher and map of a completed build.
C27_InitOnceUnderLock ==
    /\ router.loads <= 1
    /\ router.builds <= 1
    /\ \A t \in 1..Len(threads) :
          /\ threads[t].pc \in InitSection => router._init_lock = t
          /\ threads[t].seen # "partial"

(***************************************************************************)
(* Properties of the approval store when a write fails.                    *)
(***************************************************************************)
\* the approvals file after a call: the one before it, or the store written out
FileAfter(before, after, store) ==
    \/ after = before
    \/ after = [exists |-> TRUE, data |-> json_dump(store)]

\* the approvals audit log after a call: the one before it, or one line more
AuditAfter(before, after) ==
    \/ after = before
    \/ Len(after) = Len(before) + 1 /\ SubSeq(after, 1, Len(before)) = before

\* C32: when saving the store or appending to the approvals audit log fails,
\* create_approval still returns the new id with its pending record in
\* memory and approve_approval still returns true with the status approved
\* in memory; the call returns a value, and a file that was not written
\* anew is the file as it was before the call.
C32_PersistFailureSwallowed ==
    [][/\ Called("create_approval")
          => /\ ret' \in DOMAIN APPROVALS' \ DOMAIN APPROVALS
             /\ APPROVALS'[ret'].status = "pending"
             /\ FileAfter(approvals_file, approvals_file', APPROVALS')
             /\ AuditAfter(approvals_audit, approvals_audit')
       /\ (Called("approve_approval") /\ call'.approval_id \in DOMAIN APPROVALS)
          => /\ ret' = TRUE
             /\ APPROVALS'[call'.approval_id].status = "approved"
             /\ FileAfter(approvals_file, approvals_file', APPROVALS')
             /\ AuditAfter(approvals_audit, approvals_audit')]_vars

\* a request was created and approved while every save and every audit
\* write failed: the record is approved in memory, there is no approvals
\* file and the approvals audit log is empty
C32_Witness ==
    /\ call.op = "approve_approval"
    /\ ret = TRUE
    /\ call.approval_id \in DOMAIN APPROVALS
    /\ APPROVALS[call.approval_id].status = "approved"
    /\ ~approvals_file.exists
    /\ approvals_audit = <<>>

(***************************************************************************)
(* The approval store under concurrent callers: create_approval and        *)
(* approve_approval, one statement of _save_approvals at a time.           *)
(***************************************************************************)
\* a thread in create_approval or approve_approval: the call, the record it
\* is about, where its open file is (the temp path, the target path after a
\* rename by another thread, neither after a later rename) and what
\* json.dump put in the buffer of the file object
Saver(kind, approval_id, by, pc) ==
    [kind |-> kind, pc |-> pc, approval_id |-> approval_id, by |-> by,
     handle |-> "closed", buffer |-> <<>>]

\* a write of text at offset 0 of a file that holds content
overwrite(content, text) == text \o SubSeq(content, Len(text) + 1, Len(content))

\* the open files of the other threads after thread t renamed the temp file
\* onto the target: a file open at the temp path is now the target
renamed(ths, t) ==
    [i \in 1..Len(ths) |->
        IF i = t THEN [ths[i] EXCEPT !.pc = "audit"]
        ELSE IF ths[i].handle = "tmp" THEN [ths[i] EXCEPT !.handle = "target"]
        ELSE IF ths[i].handle = "target" THEN [ths[i] EXCEPT !.handle = "orphan"]
        ELSE ths[i]]

\* create_approval, lines 60-66: the record is stored under a new id
create_approval_begin(requested_by, toolcall, aid) ==
    /\ now < MaxClock
    /\ Len(threads) < MaxThreads
    /\ aid \in ApprovalIds \ DOMAIN APPROVALS
    /\ APPROVALS' = (aid :> pending_approval(requested_by, toolcall)) @@ APPROVALS
    /\ store_history' = store_history \cup {APPROVALS'}
    /\ threads' = Append(threads, Saver("create_approval", aid, requested_by, "open"))
    /\ now' = now + 1
    /\ UNCHANGED <<approvals_file, approvals_tmp, approvals_audit>>

\* approve_approval, lines 75-80: False for an unknown id, else the record
\* is marked approved
approve_approval_begin(approval_id, approver_id) ==
    /\ now < MaxClock
    /\ Len(threads) < MaxThreads
    /\ IF approval_id \notin DOMAIN APPROVALS
       THEN /\ threads' = Append(threads,
                                 Saver("approve_approval", approval_id, approver_id, "end"))
            /\ UNCHANGED <<APPROVALS, store_history>>
       ELSE /\ APPROVALS' = [APPROVALS EXCEPT ![approval_id] =
                                approved_approval(@, approver_id)]
            /\ store_history' = store_history \cup {APPROVALS'}
            /\ threads' = Append(threads,
                                 Saver("approve_approval", approval_id, approver_id, "open"))
    /\ now' = now + 1
    /\ UNCHANGED <<approvals_file, approvals_tmp, approvals_audit>>

\* _save_approvals, line 33: open(tmp, 'w') creates the temp file or empties it
save_open(t) ==
    /\ threads[t].pc = "open"
    /\ approvals_tmp' = [exists |-> TRUE, data |-> <<>>]
    /\ threads' = [threads EXCEPT ![t].pc = "dump", ![t].handle = "tmp"]
    /\ UNCHANGED <<APPROVALS, store_history, approvals_file, approvals_audit, now>>

\* line 34: json.dump writes the store as it is now into the buffer
save_dump(t) ==
    /\ threads[t].pc = "dump"
    /\ threads' = [threads EXCEPT ![t].pc = "flush", ![t].buffer = json_dump(APPROVALS)]
    /\ UNCHANGED <<APPROVALS, store_history, approvals_file, approvals_tmp,
                   approvals_audit, now>>

\* lines 35-40 and the end of the with block: the buffer is written at the
\* start of the file the thread has open, wherever that file is by now
save_flush(t) ==
    /\ threads[t].pc = "flush"
    /\ approvals_tmp' =
          IF threads[t].handle = "tmp"
          THEN [exists |-> TRUE, data |-> overwrite(approvals_tmp.data, threads[t].buffer)]
          ELSE approvals_tmp
    /\ approvals_file' =
          IF threads[t].handle = "target"
          THEN [exists |-> TRUE, data |-> overwrite(approvals_file.data, threads[t].buffer)]
          ELSE approvals_file
    /\ threads' = [threads EXCEPT ![t].pc = "replace", ![t].handle = "closed"]
    /\ UNCHANGED <<APPROVALS, store_history, approvals_audit, now>>

\* line 42: tmp.replace(_APPROVALS_FILE); without a temp file it raises and
\* lines 43-47 find nothing to unlink
save_replace(t) ==
    /\ threads[t].pc = "replace"
    /\ IF approvals_tmp.exists
       THEN /\ approvals_file' = approvals_tmp
            /\ approvals_tmp' = NoFile
            /\ threads' = renamed(threads, t)
       ELSE /\ threads' = [threads EXCEPT ![t].pc = "audit"]
            /\ UNCHANGED <<approvals_file, approvals_tmp>>
    /\ UNCHANGED <<APPROVALS, store_history, approvals_audit, now>>

\* the entry of lines 69 and 83
saver_audit_entry(th) ==
    IF th.kind = "create_approval"
    THEN [ts |-> now, approval_id |-> th.approval_id, event |-> "requested",
          requested_by |-> th.by, toolcall |-> APPROVALS[th.approval_id].toolcall]
    ELSE [ts |-> now, approval_id |-> th.approval_id, event |-> "approved",
          approved_by |-> th.by, requested_by |-> APPROVALS[th.approval_id].requested_by,
          toolcall |-> APPROVALS[th.approval_id].toolcall]

\* lines 69-70 and 83-84: the audit line, then the call returns
save_audit(t) ==
    /\ threads[t].pc = "audit"
    /\ approvals_audit' = _write_approvals_audit(saver_audit_entry(threads[t]), TRUE)
    /\ threads' = [threads EXCEPT ![t].pc = "end"]
    /\ UNCHANGED <<APPROVALS, store_history, approvals_file, approvals_tmp, now>>

\* the variables the store's threads leave alone
SaveFrame ==
    UNCHANGED <<USER_DB, TASK_POLICY_DB, audit_log, call, ret, invoked, dispatched, router,
                FAILURE_PROMPTS_CSV, VERIFIED_PROMPTS_CSV, _RECORDER_EXECUTOR>>

BeginCreate ==
    /\ SaveFrame
    /\ create_approval_begin("eng01",
                             toolcall_snapshot(ToolCall("Deployment", s_deploy, EmptyDict)),
                             uuid4)

BeginApprove ==
    /\ SaveFrame
    /\ \E approval_id \in ApprovalIds, approver_id \in Approvers :
          approve_approval_begin(approval_id, approver_id)

SaveOpen == SaveFrame /\ \E t \in 1..Len(threads) : save_open(t)
SaveDump == SaveFrame /\ \E t \in 1..Len(threads) : save_dump(t)
SaveFlush == SaveFrame /\ \E t \in 1..Len(threads) : save_flush(t)
SaveReplace == SaveFrame /\ \E t \in 1..Len(threads) : save_replace(t)
SaveAudit == SaveFrame /\ \E t \in 1..Len(threads) : save_audit(t)

NextSave ==
    \/ BeginCreate \/ BeginApprove \/ SaveOpen \/ SaveDump \/ SaveFlush
    \/ SaveReplace \/ SaveAudit

SpecSave == Init /\ [][NextSave]_vars

(***************************************************************************)
(* Properties of the approvals file under concurrent callers.              *)
(***************************************************************************)
\* C30: at every instant the approvals file at its target path does not
\* exist or holds the whole document of the store as it was at some moment.
C30_AtomicSnapshot ==
    approvals_file.exists
        => \E store \in store_history : approvals_file.data = json_dump(store)

\* the calls have all returned
AllReturned == threads # <<>> /\ \A t \in 1..Len(threads) : threads[t].pc = "end"

\* no two approve_approval calls name the same id
DifferentIds ==
    \A t, u \in 1..Len(threads) :
        (/\ t # u
         /\ threads[t].kind = "approve_approval"
         /\ threads[u].kind = "approve_approval")
        => threads[t].approval_id # threads[u].approval_id

\* the ids the create_approval calls returned
CreatedIds ==
    {threads[t].approval_id : t \in {u \in 1..Len(threads) : threads[u].kind = "create_approval"}}

\* the status an id ends with: approved when an approve_approval call for it
\* began after the create_approval call that made it
FinalStatus(id) ==
    IF \E t, u \in 1..Len(threads) :
            /\ t < u
            /\ threads[t].kind = "create_approval" /\ threads[t].approval_id = id
            /\ threads[u].kind = "approve_approval" /\ threads[u].approval_id = id
    THEN "approved" ELSE "pending"

\* C31: once concurrent create_approval and approve_approval calls (on
\* different ids) have all returned, the store in memory holds every created
\* id with its final status and the approvals file holds exactly the ids and
\* statuses of the store in memory.
C31_NoLostUpdate ==
    (AllReturned /\ DifferentIds /\ CreatedIds # {})
    => /\ CreatedIds \subseteq DOMAIN APPROVALS
       /\ \A id \in CreatedIds : APPROVALS[id].status = FinalStatus(id)
       /\ approvals_file.exists
       /\ json_valid(approvals_file.data)
       /\ DOMAIN json_parsed(approvals_file.data) = DOMAIN APPROVALS
       /\ \A id \in DOMAIN APPROVALS :
            json_parsed(approvals_file.data)[id].status = APPROVALS[id].status

(***************************************************************************)
(* Properties of the approval gate of execute_tool_call.                   *)
(***************************************************************************)
\* the last call was a high-risk one that carried an approval_id and went
\* past the approval gate to a handler
PassedGate ==
    /\ call.op = "execute_tool_call"
    /\ _requires_approval(call.tc.tool_name, call.tc.action)
    /\ ~no_approval_id(call.tc)
    /\ invoked # <<>>

\* the Approval appr was created by user_id for the call tc
CreatedFor(appr, user_id, tc) ==
    /\ appr.requested_by = user_id
    /\ appr.toolcall.tool = tc.tool_name
    /\ appr.toolcall.action = tc.action
    /\ appr.toolcall.params = WithoutApprovalId(tc.parameters)

\* C34: an approved Approval is honoured only for the call it was created
\* for: a high-risk call goes past the approval gate only when the Approval
\* it names was requested by the same identity for the same tool, action
\* and parameters.
C34_ApprovalBoundToCall ==
    PassedGate
    => CreatedFor(APPROVALS[call.tc.parameters.approval_id], call.user_id, call.tc)

\* the store as _load_approvals left it, with the identities of data.py
InitGate == InitDispatch /\ USER_DB = UserTable

SpecGate == InitGate /\ [][Next]_vars

\* the lines of audit.log for calls that carried approval_id and returned ok
HonouredLines(approval_id) ==
    {i \in 1..Len(audit_log) :
        /\ audit_log[i].decision = "ok"
        /\ _requires_approval(audit_log[i].toolcall.tool, audit_log[i].toolcall.action)
        /\ Get(audit_log[i].toolcall.params, "approval_id", "") = approval_id}

\* C35: execute_tool_call never changes an Approval that exists: a high-risk
\* call it honours leaves the Approval approved and as it was, and a
\* high-risk call that PEP2 allows and that carries an approved approval_id
\* goes past the approval gate, however often the id was used before.
C35_ApprovalNotConsumed ==
    [][Called("execute_tool_call")
        => /\ \A id \in DOMAIN APPROVALS :
                id \in DOMAIN APPROVALS' /\ APPROVALS'[id] = APPROVALS[id]
           /\ (/\ _requires_approval(call'.tc.tool_name, call'.tc.action)
               /\ ~no_approval_id(call'.tc)
               /\ approval_granted(call'.tc.parameters.approval_id)
               /\ check_tool_authorization(call'.user_id, call'.tc))
              => ret'.status # "pending_approval" /\ invoked' # <<>>]_vars

\* two deploys were run, one after the other, on the same approved id, and
\* the Approval is still approved
C35_Witness ==
    \E id \in DOMAIN APPROVALS :
        /\ APPROVALS[id].status = "approved"
        /\ Cardinality(HonouredLines(id)) >= 2

(***************************************************************************)
(* Properties of the handler the dispatcher selects.                       *)
(***************************************************************************)
\* the level the calling identity holds on a tool ("none" without a grant
\* and for an identity the table does not know)
CallerLevel(tool) ==
    IF call.user_id \in DOMAIN USER_DB
    THEN Get(USER_DB[call.user_id].permissions, tool, "none") ELSE "none"

\* the last call returned ok from the handler named
OkFrom(handler) ==
    /\ call.op = "execute_tool_call"
    /\ invoked = <<handler>>
    /\ ret.status = "ok"

\* C36: whatever the identity and the action string, execute_tool_call
\* returns ok from GitHub write_code or FileSystem write_file only for an
\* identity whose level on that tool is write or read_write, and from
\* Deployment deploy only for one whose Deployment level is deploy.
C36_NoEscalationByHandler ==
    /\ OkFrom("MockGitHub.write_code") => CallerLevel("GitHub") \in {"write", "read_write"}
    /\ OkFrom("MockFileSystem.write_file")
          => CallerLevel("FileSystem") \in {"write", "read_write"}
    /\ OkFrom("MockDeployment.deploy") => CallerLevel("Deployment") = "deploy"

\* a GitHub action PEP2 takes for a read (lower-cased it holds 'get' or
\* 'list') without the letters 'read' in it: an identity with the read level
\* passes PEP2, the dispatcher selects write_code, and the handler denies
C36_Witness ==
    /\ call.op = "execute_tool_call"
    /\ call.tc.tool_name = "GitHub"
    /\ required_level(action_or_empty(call.tc)) = "read"
    /\ ~Contains(action_or_empty(call.tc), s_read)
    /\ CallerLevel("GitHub") = "read"
    /\ check_tool_authorization(call.user_id, call.tc)
    /\ invoked = <<"MockGitHub.write_code">>
    /\ ret.status = "denied"

(***************************************************************************)
(* The DB tool: one call by an identity with one grant on DB, in each      *)
(* state of the approval store.                                            *)
(***************************************************************************)
\* identity tables in which dba01 holds no grant or one level on DB
DBUserTables ==
    {("dba01" :> User("dba01", "Dana", "IT", perms)) :
        perms \in {EmptyDict} \cup {("DB" :> level) : level \in Levels}}

\* the calls on DB: actions of every class and every parameters dict
DBCalls ==
    {ToolCall("DB", a, d) :
        a \in {s_migrate, s_deploy, s_rollback, s_read_repo, s_write_code, None},
        d \in Dicts(CallerParamNames("DB"))}

InitDB ==
    /\ USER_DB \in DBUserTables
    /\ APPROVALS \in LoadedStores
    /\ TASK_POLICY_DB = TASK_POLICY_DB_src
    /\ approvals_file = IF APPROVALS = EmptyDict THEN NoFile
                        ELSE [exists |-> TRUE, data |-> json_dump(APPROVALS)]
    /\ approvals_audit = <<>>
    /\ audit_log = <<>>
    /\ now = 0
    /\ call = [op |-> "none"]
    /\ ret = "none"
    /\ invoked = <<>>
    /\ dispatched = <<>>
    /\ router = Router_new
    /\ threads = <<>>
    /\ approvals_tmp = NoFile
    /\ store_history = {}
    /\ FAILURE_PROMPTS_CSV = NoFile
    /\ VERIFIED_PROMPTS_CSV = NoFile
    /\ _RECORDER_EXECUTOR = ThreadPoolExecutor

DBOnce ==
    /\ call.op = "none"
    /\ \E user_id \in {"dba01", "ghost01"}, tc \in DBCalls :
          execute_tool_call(user_id, tc, uuid4, TRUE, TRUE)

NextDB == DBOnce

SpecDB == InitDB /\ [][NextDB]_vars

\* C37: whatever the identity, the one level it holds on DB, the parameters
\* and the state of the Approval named, execute_tool_call on the tool DB
\* never returns status ok.
C37_DBNeverOk ==
    (call.op = "execute_tool_call" /\ call.tc.tool_name = "DB") => ret.status # "ok"

\* a migrate by an identity with the deploy level on DB that carries an
\* approved approval_id: PEP2 allows it, the approval gate is passed, and
\* the migrate handler denies it
C37_Witness ==
    /\ call.op = "execute_tool_call"
    /\ call.tc.tool_name = "DB"
    /\ call.tc.action = s_migrate
    /\ CallerLevel("DB") = "deploy"
    /\ check_tool_authorization(call.user_id, call.tc)
    /\ ~no_approval_id(call.tc)
    /\ approval_granted(call.tc.parameters.approval_id)
    /\ invoked = <<"MockDB.migrate">>
    /\ ret = [status |-> "denied", message |-> "Not authorized to migrate DB"]

(***************************************************************************)
(* The dispatcher's decision against the back-end's re-validation.         *)
(***************************************************************************)
\* the approval gate lets the call through: it is not high-risk, or it
\* carries the id of an approved Approval
GatePassed(tc) == HighRisk(tc) => approval_granted(CarriedApprovalId(tc))

\* C29: when the PEP2 check of execute_tool_call passes and the approval gate
\* passes for one of the six supported tools, the result is the back-end's
\* success: the back-end's re-validation never denies an authorised call.
C29_DispatcherAuthoritative ==
    (/\ call.op = "execute_tool_call"
     /\ call.tc.tool_name \in SupportedTools
     /\ check_tool_authorization(call.user_id, call.tc)
     /\ GatePassed(call.tc))
    => ret.status = "ok"

====
